---------------------------- MODULE Spec2Model ----------------------------
(***************************************************************************)
(* Model of the Dinheiro Contado PDF parser service                        *)
(* (services/parser/app): the /parse request handler, the bank registry    *)
(* and fingerprint detection, and the five per-bank line classifiers.      *)
(*                                                                         *)
(* Text is modelled at token level.  A page is a sequence of lines; a line *)
(* is a sequence of leading words followed by zero or more column          *)
(* segments, each segment holding the tokens a transaction regex captures  *)
(* (day, month, description words, sign, currency symbol, amount           *)
(* characters, trailing words).  Substring tests are tests on word         *)
(* sequences; letter case is kept per word.  Amounts are kept in           *)
(* hundredths; digits after the second decimal are dropped.                *)
(***************************************************************************)
EXTENDS Integers, Sequences, FiniteSets, TLC

VARIABLES
    pc,         \* position of the request in parse_statement
    req,        \* the request: file name, bank hint, password
    doc,        \* the uploaded document as the PDF library sees it
    io,         \* the environment: the current year, the fault of the upload
    tmp,        \* the temporary file: created, exists, name tokens
    handles,    \* number of open document handles
    detIdx,     \* detect_bank: index in the registry of the bank being tried
    detected,   \* detected_bank of parse_statement
    klass,      \* bank of the parser instance being run ("" when none)
    pageIdx,    \* index of the next page the classifier reads
    txs,        \* the classifier's transaction buffer
    seen,       \* Santander: the dedup set of (day, month, amount) keys
    pending,    \* how the with-block is being left: "", "return", "raise"
    failure,    \* text of the exception raised inside parse (<<>> if none)
    response,   \* what the request returned: nothing, a ParseResult, an error
    hist,       \* history: calls made so far (observation only)
    calc,       \* one application of a function of utils/parsing_utils.py
    calls       \* requests served side by side: their frames and their files

\* what the handling of a single request leaves alone
aside == <<calc, calls>>

vars == <<pc, req, doc, io, tmp, handles, detIdx, detected, klass, pageIdx,
          txs, seen, pending, failure, response, hist, calc, calls>>

(***************************************************************************)
(* Optional values: None is the empty sequence, Some(v) a one-element one. *)
(***************************************************************************)
None == <<>>

Some(v) == <<v>>

(***************************************************************************)
(* Words and letter case.  str.lower() / str.upper() on the vocabulary the *)
(* sample documents use; a word outside the tables has one case only.      *)
(***************************************************************************)
Lower(w) ==
    CASE w = "Nu" -> "nu"
      [] w = "Pagamentos" -> "pagamentos"
      [] w = "NUBANK" -> "nubank"
      [] w = "Banco" -> "banco"
      [] w = "Inter" -> "inter"
      [] w = "BTG" -> "btg"
      [] w = "Pactual" -> "pactual"
      [] w = "Santander" -> "santander"
      [] w = "SANTANDER" -> "santander"
      [] w = "Mercado" -> "mercado"
      [] w = "Pago" -> "pago"
      [] w = "Uber" -> "uber"
      [] w = "UBER" -> "uber"
      [] w = "Loja" -> "loja"
      [] w = "LOJA" -> "loja"
      [] w = "Desconto" -> "desconto"
      [] w = "Pagamento" -> "pagamento"
      [] w = "PAGAMENTO" -> "pagamento"
      [] w = "On" -> "on"
      [] w = "Line" -> "line"
      [] w = "Estorno" -> "estorno"
      [] w = "Anuidade" -> "anuidade"
      [] w = "Resumo" -> "resumo"
      [] w = "Fatura" -> "fatura"
      [] w = "Total" -> "total"
      [] w = "Cartao" -> "cartao"
      [] w = "Visa" -> "visa"
      [] w = "Mastercard" -> "mastercard"
      [] w = "Conversao" -> "conversao"
      [] w = "Real" -> "real"
      [] w = "Juros" -> "juros"
      [] w = "IOF" -> "iof"
      [] w = "Multa" -> "multa"
      [] w = "VALOR" -> "valor"
      [] w = "TOTAL" -> "total"
      [] w = "AUTO" -> "auto"
      [] w = "Itau" -> "itau"
      [] w = "Compra" -> "compra"
      [] w = "COMPRA" -> "compra"
      [] w = "Data" -> "data"
      [] w = "DATA" -> "data"
      [] w = "Valor" -> "valor"
      [] w = "X" -> "x"
      [] w = "MERCADO" -> "mercado"
      [] w = "Pagto" -> "pagto"
      [] w = "Online" -> "online"
      [] w = "Pix" -> "pix"
      [] w = "Parcela" -> "parcela"
      [] w = "PARCELA" -> "parcela"
      [] w = ".PDF" -> ".pdf"
      [] w = ".Pdf" -> ".pdf"
      [] OTHER -> w

Upper(w) ==
    CASE Lower(w) = "uber" -> "UBER"
      [] Lower(w) = "loja" -> "LOJA"
      [] Lower(w) = "pagamento" -> "PAGAMENTO"
      [] Lower(w) = "valor" -> "VALOR"
      [] Lower(w) = "total" -> "TOTAL"
      [] Lower(w) = "santander" -> "SANTANDER"
      [] Lower(w) = "desconto" -> "DESCONTO"
      [] Lower(w) = "estorno" -> "ESTORNO"
      [] Lower(w) = "anuidade" -> "ANUIDADE"
      [] Lower(w) = "fatura" -> "FATURA"
      [] Lower(w) = "resumo" -> "RESUMO"
      [] Lower(w) = "de" -> "DE"
      [] Lower(w) = "compra" -> "COMPRA"
      [] Lower(w) = "data" -> "DATA"
      [] Lower(w) = "mercado" -> "MERCADO"
      [] Lower(w) = "x" -> "X"
      [] Lower(w) = "parcela" -> "PARCELA"
      [] Lower(w) = "pix" -> "PIX"
      [] OTHER -> w

LowerAll(ws) == [i \in 1..Len(ws) |-> Lower(ws[i])]

UpperAll(ws) == [i \in 1..Len(ws) |-> Upper(ws[i])]

\* `needle in hay` on word sequences
Contains(hay, needle) ==
    \E i \in 1..(Len(hay) - Len(needle) + 1) :
        SubSeq(hay, i, i + Len(needle) - 1) = needle

\* hay.startswith(needle)
StartsWith(hay, needle) ==
    /\ Len(hay) >= Len(needle)
    /\ SubSeq(hay, 1, Len(needle)) = needle

\* any(k in hay for k in keywords)
ContainsAny(hay, keywords) == \E k \in keywords : Contains(hay, k)

(***************************************************************************)
(* Characters.  Amount tokens and file names are sequences of one-letter   *)
(* strings, so that the regular expressions and float() act on them.       *)
(***************************************************************************)
Digits == {"0", "1", "2", "3", "4", "5", "6", "7", "8", "9"}

DigitVal(c) ==
    CASE c = "0" -> 0 [] c = "1" -> 1 [] c = "2" -> 2 [] c = "3" -> 3
      [] c = "4" -> 4 [] c = "5" -> 5 [] c = "6" -> 6 [] c = "7" -> 7
      [] c = "8" -> 8 [] c = "9" -> 9 [] OTHER -> 0

\* int() of a sequence of digits
RECURSIVE NumOf(_)
NumOf(ds) ==
    IF ds = <<>> THEN 0
    ELSE 10 * NumOf(SubSeq(ds, 1, Len(ds) - 1)) + DigitVal(ds[Len(ds)])

AllIn(s, set) == \A i \in 1..Len(s) : s[i] \in set

LowerChar(c) ==
    CASE c = "P" -> "p" [] c = "D" -> "d" [] c = "F" -> "f" [] OTHER -> c

(***************************************************************************)
(* utils/parsing_utils.py                                                  *)
(***************************************************************************)
\* float(text) for text over digits, "." and "-": [ok, val], val in hundredths
FloatOf(r) ==
    LET neg  == Len(r) > 0 /\ r[1] = "-"
        body == IF neg THEN Tail(r) ELSE r
        dots == {i \in 1..Len(body) : body[i] = "."}
        dot  == IF dots = {} THEN Len(body) + 1 ELSE CHOOSE i \in dots : TRUE
        ip   == SubSeq(body, 1, dot - 1)
        fp   == SubSeq(body, dot + 1, Len(body))
        f1   == IF Len(fp) >= 1 THEN DigitVal(fp[1]) ELSE 0
        f2   == IF Len(fp) >= 2 THEN DigitVal(fp[2]) ELSE 0
        mag  == 100 * NumOf(ip) + 10 * f1 + f2
        ok   == /\ Cardinality(dots) <= 1
                /\ AllIn(ip, Digits) /\ AllIn(fp, Digits)
                /\ Len(ip) + Len(fp) >= 1
    IN  IF ok THEN [ok |-> TRUE, val |-> IF neg THEN -mag ELSE mag]
        ELSE [ok |-> FALSE, val |-> 0]

\* a variant that leaves the thousands separators in place
parse_brazilian_amount_keep_dots(amount_str) ==
    FloatOf([i \in 1..Len(amount_str) |->
                IF amount_str[i] = "," THEN "." ELSE amount_str[i]])

\* amount_str.replace(".", "").replace(",", "."), then float(): ok = FALSE
\* stands for the ValueError float() raises
parse_brazilian_amount(amount_str) ==
    LET noDots == SelectSeq(amount_str, LAMBDA c : c # ".")
        point  == [i \in 1..Len(noDots) |->
                      IF noDots[i] = "," THEN "." ELSE noDots[i]]
    IN  FloatOf(point)

Abs(x) == IF x < 0 THEN -x ELSE x

normalize_expense_amount(amount) == -Abs(amount)

normalize_credit_amount(amount) == Abs(amount)

IsLeap(y) == (y % 4 = 0 /\ y % 100 # 0) \/ y % 400 = 0

DaysInMonth(y, m) ==
    IF m = 2 THEN (IF IsLeap(y) THEN 29 ELSE 28)
    ELSE IF m \in {4, 6, 9, 11} THEN 30 ELSE 31

\* datetime(year, month, day), None in place of the ValueError
validate_date(year, month, day) ==
    IF /\ year >= 1 /\ year <= 9999
       /\ month >= 1 /\ month <= 12
       /\ day >= 1 /\ day <= DaysInMonth(year, month)
    THEN Some(<<year, month, day>>)
    ELSE None

\* a variant that adjusts the year for the adjacent months only
validate_date_with_statement_context_adjacent(year, statement_month, tx_month, day) ==
    validate_date(IF statement_month = 1 /\ tx_month = 12 THEN year - 1
                  ELSE IF statement_month = 12 /\ tx_month = 1 THEN year + 1
                  ELSE year,
                  tx_month, day)

validate_date_with_statement_context(year, statement_month, tx_month, day) ==
    LET adjusted_year ==
            IF statement_month = 1 /\ tx_month = 12 THEN year - 1
            ELSE IF statement_month = 12 /\ tx_month = 1 THEN year + 1
            ELSE IF statement_month = 2 /\ tx_month = 12 THEN year - 1
            ELSE IF statement_month = 11 /\ tx_month = 1 THEN year + 1
            ELSE year
    IN  validate_date(adjusted_year, tx_month, day)

validate_day_month(day, month) ==
    day >= 1 /\ day <= 31 /\ month >= 1 /\ month <= 12

MONTH_MAP_UPPER(t) ==
    CASE t = "JAN" -> 1 [] t = "FEV" -> 2 [] t = "MAR" -> 3 [] t = "ABR" -> 4
      [] t = "MAI" -> 5 [] t = "JUN" -> 6 [] t = "JUL" -> 7 [] t = "AGO" -> 8
      [] t = "SET" -> 9 [] t = "OUT" -> 10 [] t = "NOV" -> 11 [] t = "DEZ" -> 12
      [] OTHER -> 0

MONTH_MAP_TITLE(t) ==
    CASE t = "Jan" -> 1 [] t = "Fev" -> 2 [] t = "Mar" -> 3 [] t = "Abr" -> 4
      [] t = "Mai" -> 5 [] t = "Jun" -> 6 [] t = "Jul" -> 7 [] t = "Ago" -> 8
      [] t = "Set" -> 9 [] t = "Out" -> 10 [] t = "Nov" -> 11 [] t = "Dez" -> 12
      [] OTHER -> 0

MONTH_MAP_LOWER(t) ==
    CASE t = "jan" -> 1 [] t = "fev" -> 2 [] t = "mar" -> 3 [] t = "abr" -> 4
      [] t = "mai" -> 5 [] t = "jun" -> 6 [] t = "jul" -> 7 [] t = "ago" -> 8
      [] t = "set" -> 9 [] t = "out" -> 10 [] t = "nov" -> 11 [] t = "dez" -> 12
      [] OTHER -> 0

\* the three-letter month tokens, by letter case (what [A-Z]{3}, [A-Z][a-z]{2}
\* and \w{3} accept among the tokens used)
UpperMonthTokens ==
    {"JAN", "FEV", "MAR", "ABR", "MAI", "JUN", "JUL", "AGO", "SET", "OUT",
     "NOV", "DEZ", "XYZ"}

TitleMonthTokens ==
    {"Jan", "Fev", "Mar", "Abr", "Mai", "Jun", "Jul", "Ago", "Set", "Out",
     "Nov", "Dez", "Xyz"}

LowerMonthTokens ==
    {"jan", "fev", "mar", "abr", "mai", "jun", "jul", "ago", "set", "out",
     "nov", "dez", "xyz"}

LowerMonth(t) ==
    CASE t = "JAN" -> "jan" [] t = "Jan" -> "jan" [] t = "FEV" -> "fev"
      [] t = "Fev" -> "fev" [] t = "DEZ" -> "dez" [] t = "Dez" -> "dez"
      [] t = "XYZ" -> "xyz" [] t = "Xyz" -> "xyz" [] OTHER -> t

\* YEAR_PATTERN.search(name): position of the first "20dd", 0 if none
YearPos(name) ==
    LET hits == {i \in 1..(Len(name) - 3) :
                    /\ name[i] = "2" /\ name[i + 1] = "0"
                    /\ name[i + 2] \in Digits /\ name[i + 3] \in Digits}
    IN  IF hits = {} THEN 0 ELSE CHOOSE i \in hits : \A j \in hits : i <= j

extract_year_from_filename(name, nowYear) ==
    LET i == YearPos(name)
    IN  IF i = 0 THEN nowYear ELSE NumOf(SubSeq(name, i, i + 3))

\* MONTH_FROM_FILENAME_PATTERN: "fatura-" \d{4} "-" (\d{2}); None if no match
extract_month_from_filename(name) ==
    LET pre  == <<"f", "a", "t", "u", "r", "a", "-">>
        hits == {i \in 1..(Len(name) - 13) :
                    /\ SubSeq(name, i, i + 6) = pre
                    /\ AllIn(SubSeq(name, i + 7, i + 10), Digits)
                    /\ name[i + 11] = "-"
                    /\ AllIn(SubSeq(name, i + 12, i + 13), Digits)}
        i    == CHOOSE k \in hits : \A j \in hits : k <= j
    IN  IF hits = {} THEN None ELSE Some(NumOf(SubSeq(name, i + 12, i + 13)))

\* extract_month_from_filename(name) or 1
MonthOr1(name) ==
    LET m == extract_month_from_filename(name)
    IN  IF m = None \/ m[1] = 0 THEN 1 ELSE m[1]

(***************************************************************************)
(* The amount shapes of the transaction patterns.                          *)
(***************************************************************************)
\* [-]?\d{1,3}(?:\.\d{3})*,\d{2} over the whole token
StrictAmount(s) ==
    LET body  == IF Len(s) > 0 /\ s[1] = "-" THEN Tail(s) ELSE s
        n     == Len(body)
        head  == SubSeq(body, 1, n - 3)
        first == {k \in 1..3 : k <= Len(head) /\ (Len(head) - k) % 4 = 0}
    IN  /\ n >= 4
        /\ body[n - 2] = ","
        /\ body[n - 1] \in Digits /\ body[n] \in Digits
        /\ \E k \in first :
              /\ AllIn(SubSeq(head, 1, k), Digits)
              /\ \A g \in 0..((Len(head) - k) \div 4 - 1) :
                    /\ head[k + 4 * g + 1] = "."
                    /\ AllIn(SubSeq(head, k + 4 * g + 2, k + 4 * g + 4), Digits)

\* ([\d.,]+): the longest prefix of the token made of digits, "." and ","
LoosePrefix(s) ==
    LET ok(i) == \A j \in 1..i : s[j] \in Digits \cup {".", ","}
        best  == CHOOSE i \in 0..Len(s) :
                    ok(i) /\ \A j \in 0..Len(s) : ok(j) => j <= i
    IN  SubSeq(s, 1, best)

\* ([\d.]+,\d{2}) at the start of the token: the matched text, <<>> if none
\* ([\d.]+ is greedy and backtracks: the last ",dd" of the dotted prefix wins)
SantanderAmount(s) ==
    LET hits == {i \in 1..(Len(s) - 3) :
                    /\ AllIn(SubSeq(s, 1, i), Digits \cup {"."})
                    /\ s[i + 1] = ","
                    /\ s[i + 2] \in Digits /\ s[i + 3] \in Digits}
        i    == CHOOSE k \in hits : \A j \in hits : j <= k
    IN  IF hits = {} THEN <<>> ELSE SubSeq(s, 1, i + 3)

(***************************************************************************)
(* Documents.                                                              *)
(*   segment: [shape, day, mon, mm, year, card, desc, inst, sign, cur,     *)
(*             amt, trail]                                                 *)
(*     shape "dmon"   DD MMM [**** dddd] desc [a/b] [R$] amt               *)
(*           "dmy"    DD [de] MMM[.] YYYY desc [+|-] R$ amt                *)
(*           "dslash" DD/MM desc [a/b] [R$] amt                            *)
(*           "total"  Total R$ amt                                         *)
(*           "conv"   Conversao para Real - R$ amt                         *)
(*     inst is the "a/b" token that closes the description, if any         *)
(*   line:     [lead: words before the first segment, segs]                *)
(*   page:     [readable, lines]; extract_text() raises on an unreadable   *)
(*             page                                                        *)
(*   document: [openable, lock, pages]; lock is the password that opens    *)
(*             it, None when it is not encrypted                           *)
(* The sample lines keep to their bank's layout: a segment is offered only *)
(* to the patterns written for its shape.                                  *)
(***************************************************************************)
\* the words of a line that marker and keyword tests see
RECURSIVE SegWords(_)
SegWords(segs) ==
    IF segs = <<>> THEN <<>>
    ELSE Head(segs).desc \o Head(segs).trail \o SegWords(Tail(segs))

LineWords(line) == line.lead \o SegWords(line.segs)

Transaction(date, description, original, amount, type, ic, it, intl) ==
    [date |-> date, description |-> description,
     original_description |-> original, amount |-> amount, type |-> type,
     installment_current |-> ic, installment_total |-> it,
     is_international |-> intl]

\* sum(t.amount for t in transactions)
RECURSIVE SumAmounts(_)
SumAmounts(ts) ==
    IF ts = <<>> THEN 0 ELSE Head(ts).amount + SumAmounts(Tail(ts))

\* a variant that tests the sum where the code tests the list
total_amount_if_nonzero(transactions) ==
    IF SumAmounts(transactions) # 0 THEN Some(SumAmounts(transactions))
    ELSE None

\* sum(t.amount for t in transactions) if transactions else None
total_amount(transactions) ==
    IF transactions # <<>> THEN Some(SumAmounts(transactions)) ELSE None

(***************************************************************************)
(* parsers/base.py                                                         *)
(***************************************************************************)
ParseResult(success, bank, statement_type, total, transactions, version, error) ==
    [success |-> success, bank |-> bank, statement_type |-> statement_type,
     period_start |-> None, period_end |-> None, total_amount |-> total,
     transactions |-> transactions, parser_version |-> version,
     error_message |-> error]

\* BaseParser.BANK_NAME, the default the five classifiers override
BaseBankName == "unknown"

\* a variant that reports the base class's BANK_NAME
create_error_result_base_name(bank_name, error) ==
    ParseResult(FALSE, BaseBankName, "UNKNOWN", None, <<>>, "1.0.0",
                Some(error))

\* a variant that leaves the statement type of a credit card bill
create_error_result_credit_card(bank_name, error) ==
    ParseResult(FALSE, bank_name, "CREDIT_CARD", None, <<>>, "1.0.0",
                Some(error))

\* BaseParser._create_error_result, with self.BANK_NAME = bank_name
create_error_result(bank_name, error) ==
    ParseResult(FALSE, bank_name, "UNKNOWN", None, <<>>, "1.0.0", Some(error))

\* a variant that reports an empty transaction list as a failure
SuccessResultErrorOnEmpty(bank_name, transactions) ==
    IF transactions = <<>>
    THEN create_error_result(bank_name, "No transactions found")
    ELSE ParseResult(TRUE, bank_name, "CREDIT_CARD", total_amount(transactions),
                     transactions, "1.0.0", None)

\* the ParseResult every classifier builds after its with-block
SuccessResult(bank_name, transactions) ==
    ParseResult(TRUE, bank_name, "CREDIT_CARD", total_amount(transactions),
                transactions, "1.0.0", None)

(***************************************************************************)
(* The classifiers read a page line by line.  The state of the loop is     *)
(* [txs, seen, exc, flag]: the transaction buffer, the Santander dedup     *)
(* set, the text of an exception that left the loop (None if none) and     *)
(* the section flag of the page.                                           *)
(***************************************************************************)
ValueErrorText == "could not convert string to float"

Append1(st, tx) == [st EXCEPT !.txs = Append(@, tx)]

Raise(st, msg) == [st EXCEPT !.exc = Some(msg)]

InstOf(seg, k) == IF seg.inst = None THEN None ELSE Some(seg.inst[1][k])

(***************************************************************************)
(* parsers/nubank.py                                                       *)
(***************************************************************************)
\* TX_PATTERN_NEW / TX_PATTERN_OLD / TX_PATTERN_VERY_OLD, tried in that
\* order with re.match on the stripped line; all three end in "$"
NubankShape(line) ==
    /\ line.lead = <<>>
    /\ Len(line.segs) = 1
    /\ line.segs[1].shape = "dmon"
    /\ line.segs[1].mon \in UpperMonthTokens
    /\ line.segs[1].desc # <<>>
    /\ line.segs[1].trail = <<>>
    /\ StrictAmount(line.segs[1].amt)

TX_PATTERN_NEW(line) ==
    NubankShape(line) /\ line.segs[1].card /\ line.segs[1].cur

TX_PATTERN_OLD(line) ==
    NubankShape(line) /\ ~line.segs[1].card /\ line.segs[1].cur

TX_PATTERN_VERY_OLD(line) ==
    NubankShape(line) /\ ~line.segs[1].card /\ ~line.segs[1].cur

NubankMatches(line) ==
    TX_PATTERN_NEW(line) \/ TX_PATTERN_OLD(line) \/ TX_PATTERN_VERY_OLD(line)

\* the denylist tests of lines 115-140 on lower_desc
NubankSkip(lower_desc) ==
    \/ Contains(lower_desc, <<"pagamento">>)
    \/ Contains(lower_desc, <<"saldo", "em", "atraso">>)
    \/ Contains(lower_desc, <<"credito", "de", "atraso">>)
    \/ Contains(lower_desc, <<"multa", "de", "atraso">>)
    \/ StartsWith(lower_desc, <<"credito", "de">>)
    \/ (StartsWith(lower_desc, <<"iof">>) /\ Len(lower_desc) >= 2)
    \/ Contains(lower_desc, <<"juros", "de", "financiamento">>)
    \/ Contains(lower_desc, <<"juros", "do", "financiamento">>)
    \/ Contains(lower_desc, <<"juros", "de", "rotativo">>)
    \/ Contains(lower_desc, <<"juros", "do", "rotativo">>)
    \/ Contains(lower_desc, <<"juros", "e", "mora">>)

NubankIsDiscount(description) ==
    Contains(LowerAll(description), <<"desconto">>)

\* a variant that keeps the sign of a discount amount
NubankAmountNoAbs(is_discount, amount) ==
    IF is_discount THEN [amount |-> amount, type |-> "CREDIT"]
    ELSE IF amount > 0
    THEN [amount |-> normalize_expense_amount(amount), type |-> "DEBIT"]
    ELSE [amount |-> amount, type |-> "DEBIT"]

\* a variant that books a purchase with the sign it is printed with
NubankAmountKeepSign(is_discount, amount) ==
    IF is_discount THEN [amount |-> Abs(amount), type |-> "CREDIT"]
    ELSE [amount |-> amount, type |-> "DEBIT"]

\* lines 163-171: the sign and the kind of a Nubank transaction
NubankAmount(is_discount, amount) ==
    IF is_discount THEN [amount |-> Abs(amount), type |-> "CREDIT"]
    ELSE IF amount > 0
    THEN [amount |-> normalize_expense_amount(amount), type |-> "DEBIT"]
    ELSE [amount |-> amount, type |-> "DEBIT"]

\* the body of the line loop, lines 80-183
NubankLine(line, st, year) ==
    IF ~NubankMatches(line) THEN st
    ELSE
    LET seg         == line.segs[1]
        description == seg.desc
        lower_desc  == LowerAll(description)
        month       == MONTH_MAP_UPPER(seg.mon)
        tx_date     == validate_date(year, month, seg.day)
        parsed      == parse_brazilian_amount(seg.amt)
        signed      == NubankAmount(NubankIsDiscount(description), parsed.val)
    IN  IF NubankSkip(lower_desc) THEN st
        ELSE IF month = 0 THEN st
        ELSE IF tx_date = None THEN st
        ELSE IF ~parsed.ok THEN Raise(st, ValueErrorText)
        ELSE Append1(st, Transaction(tx_date[1], description, description,
                                     signed.amount, signed.type,
                                     InstOf(seg, 1), InstOf(seg, 2), FALSE))

(***************************************************************************)
(* parsers/inter.py                                                        *)
(***************************************************************************)
\* TX_PATTERN on one segment: DD [de] MMM[.] YYYY desc [-+] R$ amount
InterSeg(seg) ==
    /\ seg.shape = "dmy"
    /\ seg.mon \in UpperMonthTokens \cup TitleMonthTokens \cup LowerMonthTokens
    /\ seg.year # None
    /\ seg.desc # <<>>
    /\ seg.cur
    /\ LoosePrefix(seg.amt) # <<>>

\* TX_PATTERN.search(line): the index of the first segment it matches, 0 if none
InterMatch(line) ==
    LET hits == {i \in 1..Len(line.segs) : InterSeg(line.segs[i])}
    IN  IF hits = {} THEN 0 ELSE CHOOSE i \in hits : \A j \in hits : i <= j

\* CREDIT_PATTERN.search(line): "+" before the currency symbol
CREDIT_PATTERN(line) ==
    \E i \in 1..Len(line.segs) : line.segs[i].sign = "+" /\ line.segs[i].cur

\* CARD_NUMBER_PATTERN.match(description)
CARD_NUMBER_PATTERN(description) ==
    description # <<>> /\ description[1] = "1234****5678"

InterSkipKeywords ==
    {<<"anuidade">>, <<"multa">>, <<"encargos">>, <<"mora">>,
     <<"total", "cartao">>}

ADVANCE_KEYWORDS ==
    {<<"pagamento", "on", "line">>, <<"pagamento", "online">>,
     <<"pagto", "debito", "automatico">>, <<"pagto">>}

\* a variant that books an advance payment as an expense
InterAmountAllExpenses(is_advance, amount) ==
    [amount |-> normalize_expense_amount(amount), type |-> "DEBIT"]

\* lines 112-118: the sign and the kind of an Inter transaction
InterAmount(is_advance, amount) ==
    IF is_advance THEN [amount |-> Abs(amount), type |-> "CREDIT"]
    ELSE [amount |-> normalize_expense_amount(amount), type |-> "DEBIT"]

\* the body of the line loop, lines 74-128; the amount is parsed with no
\* handler around it, so a ValueError leaves the loop
InterLine(line, st) ==
    IF InterMatch(line) = 0 THEN st
    ELSE
    LET seg         == line.segs[InterMatch(line)]
        month_token == LowerMonth(seg.mon)
        description == seg.desc
        amount_str  == LoosePrefix(seg.amt)
        year        == seg.year[1]
        lower_desc  == LowerAll(description)
        is_advance  == ContainsAny(lower_desc, ADVANCE_KEYWORDS)
        month       == MONTH_MAP_LOWER(month_token)
        tx_date     == validate_date(year, month, seg.day)
        parsed      == parse_brazilian_amount(amount_str)
        signed      == InterAmount(is_advance, parsed.val)
    IN  IF ~is_advance /\ CREDIT_PATTERN(line) THEN st
        ELSE IF ~is_advance /\ ContainsAny(lower_desc, InterSkipKeywords)
        THEN st
        ELSE IF CARD_NUMBER_PATTERN(description) THEN st
        ELSE IF month = 0 THEN st
        ELSE IF tx_date = None THEN st
        ELSE IF ~parsed.ok THEN Raise(st, ValueErrorText)
        ELSE Append1(st, Transaction(tx_date[1], description, description,
                                     signed.amount, signed.type,
                                     None, None, FALSE))

(***************************************************************************)
(* parsers/btg.py                                                          *)
(***************************************************************************)
\* TX_PATTERN on one segment: DD Mon desc R$ amount
BTGSeg(seg) ==
    /\ seg.shape = "dmon"
    /\ seg.mon \in TitleMonthTokens
    /\ seg.desc # <<>>
    /\ seg.cur
    /\ LoosePrefix(seg.amt) # <<>>

\* CONVERSION_PATTERN.search(line): the index of the first match, 0 if none
ConversionMatch(line) ==
    LET hits == {i \in 1..Len(line.segs) :
                    /\ line.segs[i].shape = "conv"
                    /\ line.segs[i].cur
                    /\ LoosePrefix(line.segs[i].amt) # <<>>}
    IN  IF hits = {} THEN 0 ELSE CHOOSE i \in hits : \A j \in hits : i <= j

BTGSkipKeywords ==
    {<<"pagamento">>, <<"multa">>, <<"encargos">>, <<"mora">>,
     <<"btg", "go">>, <<"credito", "em", "confianca">>, <<"cancelamento">>}

\* AMOUNT_ONLY_PATTERN.match(description)
AMOUNT_ONLY_PATTERN(description) ==
    Len(description) = 1 /\ description[1] = "R$10,00"

\* DATE_ONLY_PATTERN.match(description)
DATE_ONLY_PATTERN(description) ==
    Len(description) = 1 /\ description[1] = "05/01"

\* description.startswith("-") and len(description) < 20: a dash and at most
\* two words after it
BTGSummary(description) == description[1] = "-" /\ Len(description) <= 3

\* one match of TX_PATTERN.findall(line), lines 104-153
BTGMatch(seg, st, year) ==
    LET description == seg.desc
        lower_desc  == LowerAll(description)
        month       == MONTH_MAP_TITLE(seg.mon)
        tx_date     == validate_date(year, month, seg.day)
        parsed      == parse_brazilian_amount(LoosePrefix(seg.amt))
    IN  IF seg.day = 0 \/ seg.day > 31 THEN st
        ELSE IF AMOUNT_ONLY_PATTERN(description) THEN st
        ELSE IF BTGSummary(description) THEN st
        ELSE IF ContainsAny(lower_desc, BTGSkipKeywords) THEN st
        ELSE IF DATE_ONLY_PATTERN(description) THEN st
        ELSE IF month = 0 THEN st
        ELSE IF tx_date = None THEN st
        ELSE IF ~parsed.ok THEN st
        ELSE Append1(st, Transaction(tx_date[1], description, description,
                                     normalize_expense_amount(parsed.val),
                                     "DEBIT", None, None, FALSE))

RECURSIVE BTGMatches(_, _, _, _)
BTGMatches(segs, i, st, year) ==
    IF i > Len(segs) THEN st
    ELSE BTGMatches(segs, i + 1,
                    IF BTGSeg(segs[i]) THEN BTGMatch(segs[i], st, year)
                    ELSE st,
                    year)

\* lines 79-100: an international conversion line
BTGConversion(line, st, year, tx_month) ==
    LET seg     == line.segs[ConversionMatch(line)]
        parsed  == parse_brazilian_amount(LoosePrefix(seg.amt))
        tx_date == validate_date(year, tx_month, 1)
    IN  IF ~parsed.ok THEN st
        ELSE IF tx_date = None THEN st
        ELSE Append1(st, Transaction(tx_date[1],
                                     <<"International", "conversion">>,
                                     LineWords(line),
                                     normalize_expense_amount(parsed.val),
                                     "DEBIT", None, None, TRUE))

\* the body of the line loop, lines 68-153; st.flag is in_payments_section
BTGLine(line, st, year, tx_month) ==
    LET words == LineWords(line)
        st1   == IF \/ Contains(words, <<"Lancamentos", "do", "cartao">>)
                    \/ Contains(words,
                           <<"Total", "de", "compras", "e", "despesas">>)
                 THEN [st EXCEPT !.flag = FALSE] ELSE st
    IN  IF Contains(words, <<"Pagamentos", "feitos", "pelo", "cliente">>)
        THEN [st EXCEPT !.flag = TRUE]
        ELSE IF st1.flag THEN st1
        ELSE IF ConversionMatch(line) # 0
        THEN BTGConversion(line, st1, year, tx_month)
        ELSE BTGMatches(line.segs, 1, st1, year)

(***************************************************************************)
(* parsers/santander.py                                                    *)
(***************************************************************************)
\* a word that begins with a capital letter
StartsUpper(w) == w # Lower(w)

\* TX_PATTERN_MAIN on one segment: DD/MM desc [dd/dd] amount, the amount
\* followed by white space or the end of the line
SantanderMainSeg(seg) ==
    /\ seg.shape = "dslash"
    /\ seg.desc # <<>>
    /\ ~seg.cur
    /\ seg.amt # <<>>
    /\ SantanderAmount(seg.amt) = seg.amt

\* TX_PATTERN_SIMPLE on one segment: the description begins with a capital
\* and the amount may be followed by anything
SantanderSimpleSeg(seg) ==
    /\ seg.shape = "dslash"
    /\ seg.desc # <<>>
    /\ StartsUpper(seg.desc[1])
    /\ ~seg.cur
    /\ SantanderAmount(seg.amt) # <<>>

SantanderSkipKeywords ==
    {<<"VALOR", "TOTAL">>, <<"TOTAL", "GERAL">>,
     <<"PAGAMENTO", "DE", "FATURA">>, <<"PAGAMENTO", "MINIMO">>,
     <<"PAGAMENTO", "TOTAL">>, <<"SALDO", "ANTERIOR">>,
     <<"TOTAL", "DE", "PAGAMENTOS">>, <<"TOTAL", "DE", "CREDITOS">>,
     <<"SALDO", "DESTA", "FATURA">>, <<"JUROS", "DE", "CREDITO">>,
     <<"Compra", "Data">>, <<"Parcela", "R$">>}

\* "0,00" in stripped
HasZeroAmount(line) ==
    \E i \in 1..Len(line.segs) :
        Contains(line.segs[i].amt, <<"0", ",", "0", "0">>)

\* INSTALLMENT_PATTERN.findall(stripped): every "a/b" of the line in order,
\* the dates of its segments included
RECURSIVE LinePairs(_)
LinePairs(segs) ==
    IF segs = <<>> THEN <<>>
    ELSE (IF Head(segs).shape = "dslash"
          THEN <<(<<Head(segs).day, Head(segs).mm>>)>> ELSE <<>>)
         \o (IF Head(segs).inst = None THEN <<>> ELSE Head(segs).inst)
         \o LinePairs(Tail(segs))

\* lines 147-157: the first pair that passes the test, None if there is none
MainInstallment(pairs, day, month) ==
    LET hits == {i \in 1..Len(pairs) :
                    /\ pairs[i][1] # day /\ pairs[i][2] # month
                    /\ pairs[i][1] <= pairs[i][2] /\ pairs[i][2] > 1}
    IN  IF hits = {} THEN None
        ELSE Some(pairs[CHOOSE i \in hits : \A j \in hits : i <= j])

\* lines 218-226: the same over the pairs of the description
SimpleInstallment(pairs) ==
    LET hits == {i \in 1..Len(pairs) :
                    pairs[i][1] <= pairs[i][2] /\ pairs[i][2] > 1}
    IN  IF hits = {} THEN None
        ELSE Some(pairs[CHOOSE i \in hits : \A j \in hits : i <= j])

PairPart(p, k) == IF p = None THEN None ELSE Some(p[1][k])

\* a variant that never consults the set of keys already seen
SantanderRecordNoDedup(seg, st, year, inst) ==
    LET parsed  == parse_brazilian_amount(SantanderAmount(seg.amt))
        amount  == normalize_expense_amount(parsed.val)
        tx_date == validate_date(year, seg.mm, seg.day)
    IN  IF ~parsed.ok \/ parsed.val = 0 \/ tx_date = None THEN st
        ELSE Append1(st, Transaction(tx_date[1], seg.desc, seg.desc, amount,
                                     "DEBIT", PairPart(inst, 1),
                                     PairPart(inst, 2), FALSE))

\* the common part of both passes: amount, dedup, date, append
SantanderRecord(seg, st, year, inst) ==
    LET parsed  == parse_brazilian_amount(SantanderAmount(seg.amt))
        amount  == normalize_expense_amount(parsed.val)
        key     == <<seg.day, seg.mm, amount>>
        tx_date == validate_date(year, seg.mm, seg.day)
        st1     == [st EXCEPT !.seen = @ \cup {key}]
    IN  IF ~parsed.ok THEN st
        ELSE IF parsed.val = 0 THEN st
        ELSE IF key \in st.seen THEN st
        ELSE IF tx_date = None THEN st1
        ELSE Append1(st1, Transaction(tx_date[1], seg.desc, seg.desc, amount,
                                      "DEBIT", PairPart(inst, 1),
                                      PairPart(inst, 2), FALSE))

\* one match of TX_PATTERN_MAIN.findall(stripped), lines 103-174
SantanderMainMatch(line, seg, st, year) ==
    IF ~validate_day_month(seg.day, seg.mm) THEN st
    ELSE IF Contains(UpperAll(seg.desc), <<"PAGAMENTO">>) THEN st
    ELSE SantanderRecord(seg, st, year,
                         MainInstallment(LinePairs(line.segs), seg.day,
                                         seg.mm))

RECURSIVE SantanderMainMatches(_, _, _, _)
SantanderMainMatches(line, i, st, year) ==
    IF i > Len(line.segs) THEN st
    ELSE SantanderMainMatches(line, i + 1,
             IF SantanderMainSeg(line.segs[i])
             THEN SantanderMainMatch(line, line.segs[i], st, year) ELSE st,
             year)

\* the body of the line loop of the main pass, lines 86-174
SantanderLine(line, st, year) ==
    LET upper_line == UpperAll(LineWords(line))
    IN  IF LineWords(line) = <<>> /\ line.segs = <<>> THEN st
        ELSE IF ContainsAny(upper_line, SantanderSkipKeywords) THEN st
        ELSE IF /\ Contains(upper_line, <<"ANUIDADE", "DIFERENCIADA">>)
                /\ HasZeroAmount(line)
        THEN st
        ELSE SantanderMainMatches(line, 1, st, year)

\* one match of TX_PATTERN_SIMPLE.findall(text), lines 179-243
SantanderSimpleMatch(seg, st, year) ==
    LET upper_desc == UpperAll(seg.desc)
    IN  IF ~validate_day_month(seg.day, seg.mm) THEN st
        ELSE IF ContainsAny(upper_desc, SantanderSkipKeywords) THEN st
        ELSE IF Contains(upper_desc, <<"PAGAMENTO">>) THEN st
        ELSE SantanderRecord(seg, st, year,
                 SimpleInstallment(IF seg.inst = None THEN <<>>
                                   ELSE seg.inst))

\* the segments of a page in text order
RECURSIVE PageSegs(_)
PageSegs(lines) ==
    IF lines = <<>> THEN <<>> ELSE Head(lines).segs \o PageSegs(Tail(lines))

RECURSIVE SantanderFallback(_, _, _, _)
SantanderFallback(segs, i, st, year) ==
    IF i > Len(segs) THEN st
    ELSE SantanderFallback(segs, i + 1,
             IF SantanderSimpleSeg(segs[i])
             THEN SantanderSimpleMatch(segs[i], st, year) ELSE st,
             year)

(***************************************************************************)
(* parsers/mercadopago.py                                                  *)
(***************************************************************************)
\* TX_PATTERN.match(stripped): DD/MM desc R$ amount, to the end of the line
MercadoPagoTx(line) ==
    /\ line.lead = <<>>
    /\ Len(line.segs) = 1
    /\ line.segs[1].shape = "dslash"
    /\ line.segs[1].desc # <<>>
    /\ line.segs[1].cur
    /\ line.segs[1].trail = <<>>
    /\ StrictAmount(line.segs[1].amt)

\* TOTAL_PATTERN.match(stripped): Total R$ ([\d.,]+), to the end of the line
TOTAL_PATTERN(line) ==
    /\ line.lead = <<>>
    /\ Len(line.segs) = 1
    /\ line.segs[1].shape = "total"
    /\ line.segs[1].cur
    /\ line.segs[1].trail = <<>>
    /\ line.segs[1].amt # <<>>
    /\ LoosePrefix(line.segs[1].amt) = line.segs[1].amt

MercadoPagoSkipKeywords ==
    {<<"pagamento">>, <<"tarifa">>, <<"encargo">>, <<"multa">>, <<"juros">>,
     <<"iof">>}

\* lines 68-111: a transaction line
MercadoPagoTxLine(line, st, year, fallback_month) ==
    LET seg         == line.segs[1]
        description == seg.desc
        lower_desc  == LowerAll(description)
        tx_date     == validate_date_with_statement_context(
                           year, fallback_month, seg.mm, seg.day)
        parsed      == parse_brazilian_amount(seg.amt)
    IN  IF ContainsAny(lower_desc, MercadoPagoSkipKeywords) THEN st
        ELSE IF tx_date = None THEN st
        ELSE IF ~parsed.ok THEN Raise(st, ValueErrorText)
        ELSE Append1(st, Transaction(tx_date[1], description, description,
                                     normalize_expense_amount(parsed.val),
                                     "DEBIT", InstOf(seg, 1), InstOf(seg, 2),
                                     FALSE))

\* lines 113-132: the total line of a card section; the amount is parsed
\* with no handler around it
MercadoPagoTotalLine(line, st, year, fallback_month) ==
    LET parsed  == parse_brazilian_amount(line.segs[1].amt)
        tx_date == validate_date(year, fallback_month, 1)
        st1     == [st EXCEPT !.flag = FALSE]
    IN  IF ~parsed.ok THEN Raise(st, ValueErrorText)
        ELSE IF tx_date = None THEN st1
        ELSE Append1(st1, Transaction(tx_date[1],
                                      <<"Card", "section", "total">>,
                                      <<"Total", "R$">>,
                                      normalize_expense_amount(parsed.val),
                                      "DEBIT", None, None, FALSE))

\* the body of the line loop, lines 59-132; st.flag is in_card_section
MercadoPagoLine(line, st, year, fallback_month) ==
    LET words == LineWords(line)
    IN  IF \/ Contains(words, <<"Cartao", "Visa">>)
           \/ Contains(words, <<"Cartao", "Mastercard">>)
        THEN [st EXCEPT !.flag = TRUE]
        ELSE IF MercadoPagoTx(line)
        THEN MercadoPagoTxLine(line, st, year, fallback_month)
        ELSE IF st.flag /\ TOTAL_PATTERN(line)
        THEN MercadoPagoTotalLine(line, st, year, fallback_month)
        ELSE st

(***************************************************************************)
(* One page of one classifier: the line loop, stopped by an exception, and *)
(* for Santander the fallback pass over the text of the page.              *)
(***************************************************************************)
ClassifierLine(bank, line, st, year, month) ==
    CASE bank = "nubank" -> NubankLine(line, st, year)
      [] bank = "inter" -> InterLine(line, st)
      [] bank = "btg" -> BTGLine(line, st, year, month)
      [] bank = "santander" -> SantanderLine(line, st, year)
      [] bank = "mercadopago" -> MercadoPagoLine(line, st, year, month)

RECURSIVE LineLoop(_, _, _, _, _, _)
LineLoop(bank, lines, i, st, year, month) ==
    IF i > Len(lines) \/ st.exc # None THEN st
    ELSE LineLoop(bank, lines, i + 1,
                  ClassifierLine(bank, lines[i], st, year, month),
                  year, month)

\* the body of `for page in pdf.pages`; the section flag starts FALSE on
\* every page (btg.py:66, mercadopago.py:58)
PageLoop(bank, lines, buffer, dedup, year, month) ==
    LET st0 == [txs |-> buffer, seen |-> dedup, exc |-> None, flag |-> FALSE]
        st1 == LineLoop(bank, lines, 1, st0, year, month)
    IN  IF bank = "santander" /\ st1.exc = None
        THEN SantanderFallback(PageSegs(lines), 1, st1, year)
        ELSE st1

(***************************************************************************)
(* parsers/__init__.py                                                     *)
(***************************************************************************)
\* the order in which the health endpoint lists the banks (main.py:54)
PARSERS_HEALTH_ORDER == <<"nubank", "btg", "inter", "santander", "mercadopago">>

\* the keys of PARSERS in insertion order
PARSERS == <<"nubank", "inter", "btg", "santander", "mercadopago">>

ParserKeys == {PARSERS[i] : i \in 1..Len(PARSERS)}

\* BANK_NAME of the class registered under a key
BANK_NAME(key) ==
    CASE key = "nubank" -> "nubank"
      [] key = "inter" -> "inter"
      [] key = "btg" -> "btg"
      [] key = "santander" -> "santander"
      [] key = "mercadopago" -> "mercadopago"

\* a variant that falls back to the first class on an unknown key
get_parser_default(bank) ==
    IF Lower(bank) \in ParserKeys THEN Some(Lower(bank)) ELSE Some("nubank")

\* get_parser: the key of the class instantiated, None for the ValueError
get_parser(bank) ==
    IF Lower(bank) \in ParserKeys THEN Some(Lower(bank)) ELSE None

\* a variant in which every document opens without its password
CanOpenUnlocked(d, password) == d.openable

\* pdfplumber.open(file_path, password=...) succeeds
CanOpen(d, password) ==
    d.openable /\ (d.lock = None \/ d.lock = password)

DETECTION_PHRASES(bank) ==
    CASE bank = "nubank" -> {<<"nu", "pagamentos">>, <<"nubank">>}
      [] bank = "inter" -> {<<"inter.co">>, <<"bancointer">>,
                            <<"conta", "do", "inter">>, <<"banco", "inter">>}
      [] bank = "btg" -> {<<"btg", "pactual">>, <<"btg">>}
      [] bank = "santander" -> {<<"santander">>}
      [] bank = "mercadopago" -> {<<"mercado", "pago">>}

\* how many leading pages each detect() reads
DetectPages(bank) ==
    CASE bank = "nubank" -> 3
      [] bank = "inter" -> 6
      [] bank = "btg" -> 1
      [] bank = "santander" -> 1
      [] bank = "mercadopago" -> 4

Min(a, b) == IF a < b THEN a ELSE b

\* the body of detect() inside its with-block: "true", "false" (no pages, or
\* no phrase found) or "failed" (a page could not be read; detect's own
\* handler turns that into False)
DetectBody(bank, d) ==
    LET n == Min(DetectPages(bank), Len(d.pages))
    IN  IF d.pages = <<>> THEN "false"
        ELSE IF \E i \in 1..n : ~d.pages[i].readable THEN "failed"
        ELSE IF \E i \in 1..n : \E j \in 1..Len(d.pages[i].lines) :
                   ContainsAny(LowerAll(LineWords(d.pages[i].lines[j])),
                               DETECTION_PHRASES(bank))
        THEN "true"
        ELSE "false"

\* a variant that closes the handle only when no exception leaves the block
ContextExitLeakOnRaise(open, how) == IF how = "raise" THEN open ELSE open - 1

\* leaving `with pdfplumber.open(...) as pdf`: the handle is closed however
\* the block is left ("normal", "return", "raise")
ContextExit(open, how) == open - 1

(***************************************************************************)
(* main.py                                                                 *)
(***************************************************************************)
EndsWith(s, suffix) ==
    /\ Len(s) >= Len(suffix)
    /\ SubSeq(s, Len(s) - Len(suffix) + 1, Len(s)) = suffix

LowerChars(s) == [i \in 1..Len(s) |-> LowerChar(s[i])]

\* a variant without the `not file.filename` test
ValidNameNoMissingCheck(filename) ==
    \/ filename = None
    \/ EndsWith(LowerChars(filename[1]), <<".", "p", "d", "f">>)

\* main.py:75 negated: the file name is present and ends in ".pdf"
ValidName(filename) ==
    /\ filename # None
    /\ filename[1] # <<>>
    /\ EndsWith(LowerChars(filename[1]), <<".", "p", "d", "f">>)

(***************************************************************************)
(* Sample inputs.                                                          *)
(***************************************************************************)
Chars(a, b, c, d, e) == SelectSeq(<<a, b, c, d, e>>, LAMBDA x : x # "")

Seg(shape, day, mon, mm, desc, cur, amt) ==
    [shape |-> shape, day |-> day, mon |-> mon, mm |-> mm, year |-> None,
     card |-> FALSE, desc |-> desc, inst |-> None, sign |-> "", cur |-> cur,
     amt |-> amt, trail |-> <<>>]

Text(words) == [lead |-> words, segs |-> <<>>]

One(seg) == [lead |-> <<>>, segs |-> <<seg>>]

Amt3250 == Chars("3", "2", ",", "5", "0")

Amt500 == Chars("5", ",", "0", "0", "")

AmtNeg500 == Chars("-", "5", ",", "0", "0")

Amt1000 == Chars("1", "0", ",", "0", "0")

AmtBad == Chars("1", ",", "2", ",", "3")

Noise == Text(<<"Resumo", "da", "Fatura">>)

FpNubank == Text(<<"Nu", "Pagamentos", "S.A.">>)

FpInter == Text(<<"Banco", "Inter">>)

FpBTG == Text(<<"BTG", "Pactual">>)

FpSantander == Text(<<"Santander">>)

FpMercadoPago == Text(<<"Mercado", "Pago">>)

\* "05 JAN Uber R$ 32,50"
NuTx == One(Seg("dmon", 5, "JAN", 0, <<"Uber">>, TRUE, Amt3250))

\* "10 JAN **** 1234 Loja 2/12 R$ 5,00"
NuFive ==
    One([Seg("dmon", 10, "JAN", 0, <<"Loja">>, TRUE, Amt500)
            EXCEPT !.card = TRUE, !.inst = Some(<<2, 12>>)])

\* "07 JAN Desconto R$ -5,00"
NuDisc == One(Seg("dmon", 7, "JAN", 0, <<"Desconto">>, TRUE, AmtNeg500))

\* "08 JAN Pagamento recebido 10,00"
NuPay ==
    One(Seg("dmon", 8, "JAN", 0, <<"Pagamento", "recebido">>, FALSE, Amt1000))

\* "31 FEV Loja R$ 10,00"
NuBadDate == One(Seg("dmon", 31, "FEV", 0, <<"Loja">>, TRUE, Amt1000))

\* "10 de jan. 2025 Uber - R$ 32,50"
InTx ==
    One([Seg("dmy", 10, "jan", 0, <<"Uber">>, TRUE, Amt3250)
            EXCEPT !.year = Some(2025), !.sign = "-"])

\* "10 de Jan 2025 Pagamento On Line + R$ 5,00"
InAdv ==
    One([Seg("dmy", 10, "Jan", 0, <<"Pagamento", "On", "Line">>, TRUE, Amt500)
            EXCEPT !.year = Some(2025), !.sign = "+"])

\* "12 de jan. 2025 Estorno + R$ 10,00"
InRefund ==
    One([Seg("dmy", 12, "jan", 0, <<"Estorno">>, TRUE, Amt1000)
            EXCEPT !.year = Some(2025), !.sign = "+"])

\* "11 de jan. 2025 Loja R$ 1,2,3"
InBad ==
    One([Seg("dmy", 11, "jan", 0, <<"Loja">>, TRUE, AmtBad)
            EXCEPT !.year = Some(2025)])

\* "05 Jan Uber R$ 32,50"
BtTx == One(Seg("dmon", 5, "Jan", 0, <<"Uber">>, TRUE, Amt3250))

\* "06 Jan Loja R$ 1,2,3"
BtBad == One(Seg("dmon", 6, "Jan", 0, <<"Loja">>, TRUE, AmtBad))

\* "Compra internacional Conversao para Real - R$ 10,00"
BtConv ==
    [lead |-> <<"Compra", "internacional">>,
     segs |-> <<[Seg("conv", 0, "", 0, <<>>, TRUE, Amt1000)
                    EXCEPT !.sign = "-"]>>]

\* "05/01 UBER 32,50"
SaTx == One(Seg("dslash", 5, "", 1, <<"UBER">>, FALSE, Amt3250))

\* "05/01 UBER 32,50   06/01 LOJA 01/02 10,00": two columns on one line
SaTwo ==
    [lead |-> <<>>,
     segs |-> <<Seg("dslash", 5, "", 1, <<"UBER">>, FALSE, Amt3250),
                [Seg("dslash", 6, "", 1, <<"LOJA">>, FALSE, Amt1000)
                    EXCEPT !.inst = Some(<<1, 2>>)]>>]

\* "07/01 Loja R$ 1,2,3": the amount is no Santander amount
SaBad == One(Seg("dslash", 7, "", 1, <<"Loja">>, FALSE, AmtBad))

\* "05/01 Uber R$ 32,50"
MpTx == One(Seg("dslash", 5, "", 1, <<"Uber">>, TRUE, Amt3250))

MpCard == Text(<<"Cartao", "Visa">>)

\* "Total R$ 10,00"
MpTotal == One(Seg("total", 0, "", 0, <<>>, TRUE, Amt1000))

\* "Total R$ 1,2,3"
MpBadTotal == One(Seg("total", 0, "", 0, <<>>, TRUE, AmtBad))

Page(lines) == [readable |-> TRUE, lines |-> lines]

Unreadable == [readable |-> FALSE, lines |-> <<>>]

PageSamples ==
    { Page(<<Noise>>),
      Page(<<FpNubank, NuTx, NuPay, NuDisc>>),
      Page(<<NuFive, NuBadDate, NuDisc>>),
      Page(<<FpInter, InTx, InRefund, InAdv>>),
      Page(<<InTx, InBad, InAdv>>),
      Page(<<FpBTG, BtTx, BtBad, BtConv>>),
      Page(<<FpBTG, FpInter>>),
      Page(<<FpSantander, SaTx, SaBad, SaTwo>>),
      Page(<<FpMercadoPago, MpCard, MpTotal, MpTx>>),
      Page(<<MpTx, MpCard, MpBadTotal, MpTx>>),
      Unreadable }

\* the largest number of pages of a document
MaxPages == 2

\* the page sequences of at most n sample pages
PageSeqs(n) == UNION {[1..k -> PageSamples] : k \in 0..n}

Password == "segredo"

DocSamples ==
    {[openable |-> FALSE, lock |-> None, pages |-> <<>>]} \cup
    [openable : {TRUE}, lock : {None, Some(Password)},
     pages : PageSeqs(MaxPages)]

PasswordSamples == {None, Some(Password), Some("errada")}

BankHints ==
    {"auto", "nubank", "inter", "btg", "santander", "mercadopago", "NUBANK",
     "AUTO", "itau"}

\* "fatura-2025-12.pdf", "x.PDF", "x.txt", "pdf", "" and no name at all
FilenameSamples ==
    { Some(<<"f", "a", "t", "u", "r", "a", "-", "2", "0", "2", "5", "-",
             "1", "2", ".", "p", "d", "f">>),
      Some(<<"x", ".", "P", "D", "F">>),
      Some(<<"x", ".", "t", "x", "t">>),
      Some(<<"p", "d", "f">>),
      Some(<<>>),
      None }

\* names tempfile.NamedTemporaryFile(suffix=".pdf") may generate
TmpNames ==
    { <<"t", "m", "p", "a", "b", "c", "d", ".", "p", "d", "f">>,
      <<"t", "m", "p", "2", "0", "2", "4", ".", "p", "d", "f">> }

\* datetime.now().year
NowYears == {2026}

(***************************************************************************)
(* The request: parse_statement (main.py:58-127), with detect_bank and the *)
(* classifier's parse run step by step.                                    *)
(***************************************************************************)
NoResponse == [kind |-> "none"]

\* raise HTTPException(status_code=400, ...)
HttpError == [kind |-> "http_error", status |-> 400]

\* an exception that leaves the handler
Unhandled == [kind |-> "unhandled", status |-> 500]

Returned(result) == [kind |-> "result", result |-> result]

OpenErrorText == "could not open the document"

PageErrorText == "could not extract the page text"

UndetectedText ==
    "Could not auto-detect bank from PDF. Please specify bank parameter."

NoParserText == "No parser available for bank"

\* no function is being applied; no other request is being served
NoCalc == [fn |-> "none"]

NoCalls == [reqs |-> <<>>, frames |-> <<>>, files |-> <<>>]

\* the state of parse_statement before a request arrives
Idle ==
    /\ pc = "idle"
    /\ req = [filename |-> None, bank |-> "auto", password |-> None]
    /\ doc = [openable |-> FALSE, lock |-> None, pages |-> <<>>]
    /\ io \in [nowYear : NowYears, fault : {"none"}]
    /\ tmp = [exists |-> FALSE, name |-> <<>>]
    /\ handles = 0
    /\ detIdx = 0
    /\ detected = ""
    /\ klass = ""
    /\ pageIdx = 0
    /\ txs = <<>>
    /\ seen = {}
    /\ pending = ""
    /\ failure = None
    /\ response = NoResponse
    /\ hist = [tmpCreated |-> 0, detectCalls |-> 0, getParserCalls |-> 0,
               parseRuns |-> 0, opened |-> 0, trace |-> <<>>]

Init ==
    /\ Idle
    /\ calc = NoCalc
    /\ calls = NoCalls

\* a request arrives: POST /parse with a file, a bank hint and a password
Submit ==
    /\ pc = "idle"
    /\ \E f \in FilenameSamples, b \in BankHints, p \in PasswordSamples :
          req' = [filename |-> f, bank |-> b, password |-> p]
    /\ pc' = "validate"
    /\ UNCHANGED <<doc, io, tmp, handles, detIdx, detected, klass, pageIdx, txs, seen,
                   pending, failure, response, hist>>
    /\ UNCHANGED aside

\* main.py:75-76
Reject ==
    /\ pc = "validate"
    /\ ~ValidName(req.filename)
    /\ response' = HttpError
    /\ pc' = "rejected"
    /\ UNCHANGED <<req, doc, io, tmp, handles, detIdx, detected, klass,
                   pageIdx, txs, seen, pending, failure, hist>>
    /\ UNCHANGED aside

\* main.py:79: NamedTemporaryFile(delete=False, suffix=".pdf") creates the file
CreateTemp ==
    /\ pc = "validate"
    /\ ValidName(req.filename)
    /\ \E n \in TmpNames : tmp' = [exists |-> TRUE, name |-> n]
    /\ hist' = [hist EXCEPT !.tmpCreated = @ + 1]
    /\ pc' = "save"
    /\ UNCHANGED <<req, doc, io, handles, detIdx, detected, klass, pageIdx,
                   txs, seen, pending, failure, response>>
    /\ UNCHANGED aside

\* main.py:80-82: the content of the upload is read and written to the
\* temporary file.  An exception of file.read() or tmp.write() leaves the
\* handler; the try/finally of line 84 has not been entered
SaveUpload ==
    /\ pc = "save"
    /\ \E fault \in {"none", "read", "write"} :
          /\ io' = [io EXCEPT !.fault = fault]
          /\ IF fault # "none"
             THEN /\ response' = Unhandled
                  /\ pc' = "crashed"
                  /\ doc' = doc
             ELSE /\ response' = response
                  /\ pc' = "dispatch"
                  /\ doc' \in DocSamples
    /\ UNCHANGED <<req, tmp, handles, detIdx, detected, klass,
                   pageIdx, txs, seen, pending, failure, hist>>
    /\ UNCHANGED aside

\* main.py:86-88
Dispatch ==
    /\ pc = "dispatch"
    /\ detected' = req.bank
    /\ IF req.bank = "auto"
       THEN /\ pc' = "detect"
            /\ detIdx' = 1
            /\ hist' = [hist EXCEPT !.detectCalls = @ + 1]
       ELSE /\ pc' = "resolve"
            /\ UNCHANGED <<detIdx, hist>>
    /\ UNCHANGED <<req, doc, io, tmp, handles, klass, pageIdx, txs, seen,
                   pending, failure, response>>
    /\ UNCHANGED aside

\* detect_bank: the rest of the loop after PARSERS[detIdx] answered `outcome`
\* (__init__.py:58-65, main.py:89-97)
DetectAnswer(outcome, open) ==
    /\ hist' = [hist EXCEPT
                   !.trace = Append(@, <<PARSERS[detIdx], outcome>>),
                   !.opened = @ + open]
    /\ IF outcome = "true"
       THEN /\ detected' = PARSERS[detIdx]
            /\ pc' = "resolve"
            /\ UNCHANGED <<detIdx, response>>
       ELSE IF detIdx < Len(PARSERS)
       THEN /\ detIdx' = detIdx + 1
            /\ pc' = "detect"
            /\ UNCHANGED <<detected, response>>
       ELSE /\ detected' = "unknown"
            /\ response' = Returned(ParseResult(FALSE, "unknown", "UNKNOWN",
                                        None, <<>>, "1.0.0",
                                        Some(UndetectedText)))
            /\ pc' = "finally"
            /\ UNCHANGED detIdx

\* parser.detect(file_path) up to pdfplumber.open(file_path): no password is
\* passed; a failure to open is caught by detect and answered False
DetectOpen ==
    /\ pc = "detect"
    /\ IF CanOpen(doc, None)
       THEN /\ handles' = handles + 1
            /\ pc' = "detect_body"
            /\ UNCHANGED <<detIdx, detected, response, hist>>
       ELSE /\ DetectAnswer("failed", 0)
            /\ UNCHANGED handles
    /\ UNCHANGED <<req, doc, io, tmp, klass, pageIdx, txs, seen, pending,
                   failure>>
    /\ UNCHANGED aside

\* the with-block of detect and its exit
DetectRead ==
    /\ pc = "detect_body"
    /\ LET outcome == DetectBody(PARSERS[detIdx], doc)
       IN  /\ handles' = ContextExit(handles,
                             IF outcome = "failed" THEN "raise" ELSE "return")
           /\ DetectAnswer(outcome, 1)
    /\ UNCHANGED <<req, doc, io, tmp, klass, pageIdx, txs, seen, pending,
                   failure>>
    /\ UNCHANGED aside

\* main.py:100-110
Resolve ==
    /\ pc = "resolve"
    /\ hist' = [hist EXCEPT !.getParserCalls = @ + 1]
    /\ IF get_parser(detected) = None
       THEN /\ response' = Returned(ParseResult(FALSE, detected, "UNKNOWN",
                                        None, <<>>, "1.0.0",
                                        Some(NoParserText)))
            /\ pc' = "finally"
            /\ klass' = klass
       ELSE /\ klass' = get_parser(detected)[1]
            /\ pc' = "parse"
            /\ response' = response
    /\ UNCHANGED <<req, doc, io, tmp, handles, detIdx, detected, pageIdx, txs,
                   seen, pending, failure>>
    /\ UNCHANGED aside

\* parser.parse(tmp_path, password=password) up to pdfplumber.open: a failure
\* to open is caught by parse's handler and returned as an error result
ParserOpen ==
    /\ pc = "parse"
    /\ txs' = <<>>
    /\ seen' = {}
    /\ IF CanOpen(doc, req.password)
       THEN /\ handles' = handles + 1
            /\ hist' = [hist EXCEPT !.parseRuns = @ + 1, !.opened = @ + 1]
            /\ pageIdx' = 1
            /\ pc' = "parse_pages"
            /\ UNCHANGED <<failure, response>>
       ELSE /\ hist' = [hist EXCEPT !.parseRuns = @ + 1]
            /\ failure' = Some(OpenErrorText)
            /\ response' = Returned(create_error_result(BANK_NAME(klass),
                                                        OpenErrorText))
            /\ pc' = "finally"
            /\ UNCHANGED <<handles, pageIdx>>
    /\ UNCHANGED <<req, doc, io, tmp, detIdx, detected, klass, pending>>
    /\ UNCHANGED aside

\* nubank.py:68-69: the early return from inside the with-block
NubankEmpty ==
    /\ pc = "parse_pages"
    /\ klass = "nubank"
    /\ doc.pages = <<>>
    /\ pending' = "return"
    /\ pc' = "parse_exit"
    /\ UNCHANGED <<req, doc, io, tmp, handles, detIdx, detected, klass,
                   pageIdx, txs, seen, failure, response, hist>>
    /\ UNCHANGED aside

\* a variant that hands the classifier the name of the upload
tmp_path_of_upload == IF req.filename = None THEN <<>> ELSE req.filename[1]

\* main.py:82, 112: tmp_path = tmp.name is the file_path of parser.parse
tmp_path == tmp.name

\* one round of `for page in pdf.pages`: extract_text(), then the lines
ParsePage ==
    /\ pc = "parse_pages"
    /\ pageIdx <= Len(doc.pages)
    /\ LET page == doc.pages[pageIdx]
           st   == PageLoop(klass, page.lines, txs, seen,
                            extract_year_from_filename(tmp_path, io.nowYear),
                            MonthOr1(tmp_path))
       IN  IF ~page.readable
           THEN /\ failure' = Some(PageErrorText)
                /\ pending' = "raise"
                /\ pc' = "parse_exit"
                /\ UNCHANGED <<txs, seen, pageIdx>>
           ELSE /\ txs' = st.txs
                /\ seen' = st.seen
                /\ IF st.exc # None
                   THEN /\ failure' = st.exc
                        /\ pending' = "raise"
                        /\ pc' = "parse_exit"
                        /\ pageIdx' = pageIdx
                   ELSE /\ pageIdx' = pageIdx + 1
                        /\ UNCHANGED <<failure, pending, pc>>
    /\ UNCHANGED <<req, doc, io, tmp, handles, detIdx, detected, klass,
                   response, hist>>
    /\ UNCHANGED aside

\* the page loop is over
ParseLoopEnd ==
    /\ pc = "parse_pages"
    /\ pageIdx > Len(doc.pages)
    /\ ~(klass = "nubank" /\ doc.pages = <<>>)
    /\ pending' = "normal"
    /\ pc' = "parse_exit"
    /\ UNCHANGED <<req, doc, io, tmp, handles, detIdx, detected, klass,
                   pageIdx, txs, seen, failure, response, hist>>
    /\ UNCHANGED aside

\* the with-block of parse is left and parse returns: the success result
\* after the block, the "Empty PDF" result of the early return, or the
\* error result of `except Exception as e`
ParserExit ==
    /\ pc = "parse_exit"
    /\ handles' = ContextExit(handles, pending)
    /\ response' =
          Returned(IF pending = "normal"
                   THEN SuccessResult(BANK_NAME(klass), txs)
                   ELSE IF pending = "return"
                   THEN create_error_result(BANK_NAME(klass), "Empty PDF")
                   ELSE create_error_result(BANK_NAME(klass), failure[1]))
    /\ pc' = "finally"
    /\ UNCHANGED <<req, doc, io, tmp, detIdx, detected, klass, pageIdx, txs,
                   seen, pending, failure, hist>>
    /\ UNCHANGED aside

\* main.py:124-127
Finally ==
    /\ pc = "finally"
    /\ tmp' = [tmp EXCEPT !.exists = FALSE]
    /\ pc' = "responded"
    /\ UNCHANGED <<req, doc, io, handles, detIdx, detected, klass, pageIdx,
                   txs, seen, pending, failure, response, hist>>
    /\ UNCHANGED aside

Next ==
    \/ Submit
    \/ Reject
    \/ CreateTemp
    \/ SaveUpload
    \/ Dispatch
    \/ DetectOpen
    \/ DetectRead
    \/ Resolve
    \/ ParserOpen
    \/ NubankEmpty
    \/ ParsePage
    \/ ParseLoopEnd
    \/ ParserExit
    \/ Finally

Spec == Init /\ [][Next]_vars

(***************************************************************************)
(* A classifier's parse as a function of the document it reads: the page   *)
(* loop run to its end, then the result built after the with-block.        *)
(***************************************************************************)
RECURSIVE ParsePages(_, _, _, _, _, _)
ParsePages(bank, pages, i, st, year, month) ==
    IF i > Len(pages) \/ st.exc # None THEN st
    ELSE IF ~pages[i].readable
    THEN [st EXCEPT !.exc = Some(PageErrorText)]
    ELSE ParsePages(bank, pages, i + 1,
                    PageLoop(bank, pages[i].lines, st.txs, st.seen, year,
                             month),
                    year, month)

ParseAlone(bank, pages, year, month) ==
    IF bank = "nubank" /\ pages = <<>>
    THEN create_error_result(BANK_NAME(bank), "Empty PDF")
    ELSE LET st == ParsePages(bank, pages, 1,
                              [txs |-> <<>>, seen |-> {}, exc |-> None,
                               flag |-> FALSE],
                              year, month)
         IN  IF st.exc # None
             THEN create_error_result(BANK_NAME(bank), st.exc[1])
             ELSE SuccessResult(BANK_NAME(bank), st.txs)

(***************************************************************************)
(* Requests served side by side.  Each request has its own temporary file  *)
(* (NamedTemporaryFile never hands out a name that exists), its own parser *)
(* instance (get_parser instantiates the class on every call) and its own  *)
(* locals in parse (transactions, seen, the section flags).  The steps of  *)
(* different requests interleave page by page, which is finer than the     *)
(* event loop allows: parse runs without awaiting.                         *)
(***************************************************************************)
\* the number of requests in flight
NumRequests == 2

Requests == 1..NumRequests

\* the frame holding the locals of the parse call of request r
FrameShared(r) == 1

Frame(r) == r

ConcBanks == {"nubank", "santander"}

ConcDocs ==
    { <<>>,
      <<Page(<<FpSantander, SaTx, SaBad, SaTwo>>)>>,
      <<Page(<<FpNubank, NuTx, NuPay, NuDisc>>),
        Page(<<FpSantander, SaTx, SaBad, SaTwo>>)>>,
      <<Page(<<SaTx, SaTwo>>), Page(<<NuFive, NuBadDate, NuDisc>>)>> }

IdleCall ==
    [pc |-> "idle", bank |-> "", name |-> <<>>, pages |-> <<>>, pageIdx |-> 0,
     result |-> None]

EmptyFrame == [txs |-> <<>>, seen |-> {}]

single == <<pc, req, doc, io, tmp, handles, detIdx, detected, klass, pageIdx,
            txs, seen, pending, failure, response, hist>>

InitConc ==
    /\ Idle
    /\ calc = NoCalc
    /\ calls = [reqs |-> [r \in Requests |-> IdleCall],
                frames |-> [r \in Requests |-> EmptyFrame],
                files |-> [n \in TmpNames |-> None],
                mixed |-> FALSE]

\* main.py:79-82: the upload is written to a temporary file of a new name
ConcSave(r) ==
    /\ calls.reqs[r].pc = "idle"
    /\ \E b \in ConcBanks, d \in ConcDocs, n \in TmpNames :
          /\ calls.files[n] = None
          /\ calls' = [calls EXCEPT
                          !.files[n] = Some(d),
                          !.reqs[r] = [@ EXCEPT !.pc = "saved", !.bank = b,
                                                !.name = n, !.pages = d]]

\* get_parser(bank) and the head of parse: a new instance, new locals
ConcParseStart(r) ==
    /\ calls.reqs[r].pc = "saved"
    /\ LET c == calls.reqs[r]
       IN  IF c.bank = "nubank" /\ calls.files[c.name][1] = <<>>
           THEN calls' = [calls EXCEPT
                    !.reqs[r] = [@ EXCEPT
                        !.pc = "finally",
                        !.result = Some(create_error_result(
                                            BANK_NAME(c.bank), "Empty PDF"))]]
           ELSE calls' = [calls EXCEPT
                    !.frames[Frame(r)] = EmptyFrame,
                    !.reqs[r] = [@ EXCEPT !.pc = "pages", !.pageIdx = 1]]

\* one turn of `for page in pdf.pages` of request r
ConcParsePage(r) ==
    /\ calls.reqs[r].pc = "pages"
    /\ LET c     == calls.reqs[r]
           pages == calls.files[c.name][1]
           fr    == calls.frames[Frame(r)]
           st    == PageLoop(c.bank, pages[c.pageIdx].lines, fr.txs, fr.seen,
                             extract_year_from_filename(c.name, io.nowYear),
                             MonthOr1(c.name))
           busy  == \E o \in Requests \ {r} :
                        calls.reqs[o].pc = "pages" /\ calls.reqs[o].pageIdx > 1
       IN  /\ c.pageIdx <= Len(pages)
           /\ calls' = [calls EXCEPT
                  !.frames[Frame(r)] = [txs |-> st.txs, seen |-> st.seen],
                  !.mixed = @ \/ busy,
                  !.reqs[r] =
                      IF st.exc # None
                      THEN [@ EXCEPT
                               !.pc = "finally",
                               !.result = Some(create_error_result(
                                              BANK_NAME(c.bank), st.exc[1]))]
                      ELSE [@ EXCEPT !.pageIdx = @ + 1]]

\* the page loop of request r is over: the result is built from its buffer
ConcReturn(r) ==
    /\ calls.reqs[r].pc = "pages"
    /\ LET c == calls.reqs[r]
       IN  /\ c.pageIdx > Len(calls.files[c.name][1])
           /\ calls' = [calls EXCEPT
                  !.reqs[r] = [@ EXCEPT
                      !.pc = "finally",
                      !.result = Some(SuccessResult(
                                     BANK_NAME(c.bank),
                                     calls.frames[Frame(r)].txs))]]

\* main.py:124-127: the request removes its own temporary file
ConcFinally(r) ==
    /\ calls.reqs[r].pc = "finally"
    /\ calls' = [calls EXCEPT
                    !.files[calls.reqs[r].name] = None,
                    !.reqs[r] = [@ EXCEPT !.pc = "responded"]]

Save == \E r \in Requests : ConcSave(r) /\ UNCHANGED <<single, calc>>

ParseStart == \E r \in Requests : ConcParseStart(r) /\ UNCHANGED <<single, calc>>

ParseOnePage == \E r \in Requests : ConcParsePage(r) /\ UNCHANGED <<single, calc>>

Return == \E r \in Requests : ConcReturn(r) /\ UNCHANGED <<single, calc>>

Unlink == \E r \in Requests : ConcFinally(r) /\ UNCHANGED <<single, calc>>

NextConc ==
    \/ Save
    \/ ParseStart
    \/ ParseOnePage
    \/ Return
    \/ Unlink

ConcSpec == InitConc /\ [][NextConc]_vars

(***************************************************************************)
(* One classifier on one document: parse_statement from the call           *)
(* parser.parse(tmp_path, password=password) on, for a request that named  *)
(* its bank.  The documents are built from pages that exercise the         *)
(* sections, the two Santander passes and the credit lines.                *)
(***************************************************************************)
\* "29 FEV Mercado R$ 10,00"
NuLeap == One(Seg("dmon", 29, "FEV", 0, <<"Mercado">>, TRUE, Amt1000))

\* "31 de fev 2025 Pagamento On Line + R$ 5,00"
InAdvBadDate ==
    One([Seg("dmy", 31, "fev", 0, <<"Pagamento", "On", "Line">>, TRUE, Amt500)
            EXCEPT !.year = Some(2025), !.sign = "+"])

\* "10 de Jan 2025 Pagamento On Line + R$ 500,00"
InAdvance500 ==
    One([Seg("dmy", 10, "Jan", 0, <<"Pagamento", "On", "Line">>, TRUE,
             <<"5", "0", "0", ",", "0", "0">>)
            EXCEPT !.year = Some(2025), !.sign = "+"])

\* "14 de jan. 2025 1234****5678 Pagamento Online + R$ 10,00"
InAdvCard ==
    One([Seg("dmy", 14, "jan", 0, <<"1234****5678", "Pagamento", "Online">>,
             TRUE, Amt1000)
            EXCEPT !.year = Some(2025), !.sign = "+"])

\* "13 de jan. 2025 Pagto fatura + R$ 10,00"
InPagto ==
    One([Seg("dmy", 13, "jan", 0, <<"Pagto", "fatura">>, TRUE, Amt1000)
            EXCEPT !.year = Some(2025), !.sign = "+"])

BtPayments == Text(<<"Pagamentos", "feitos", "pelo", "cliente">>)

BtLancamentos == Text(<<"Lancamentos", "do", "cartao">>)

BtTotalCompras == Text(<<"Total", "de", "compras", "e", "despesas">>)

\* "06 Jan Pix R$ 10,00"
BtPix == One(Seg("dmon", 6, "Jan", 0, <<"Pix">>, TRUE, Amt1000))

\* "07 Jan Loja R$ 5,00"
BtLoja == One(Seg("dmon", 7, "Jan", 0, <<"Loja">>, TRUE, Amt500))

\* "05/01 UBER 32,50 VALOR TOTAL": a summary caption beside a transaction
SaCaption ==
    One([Seg("dslash", 5, "", 1, <<"UBER">>, FALSE, Amt3250)
            EXCEPT !.trail = <<"VALOR", "TOTAL">>])

\* "06/01 LOJA 10,00"
SaLoja == One(Seg("dslash", 6, "", 1, <<"LOJA">>, FALSE, Amt1000))

\* "06/01 Loja R$ 5,00"
MpLoja == One(Seg("dslash", 6, "", 1, <<"Loja">>, TRUE, Amt500))

\* "05 JAN Loja 12/2 R$ 32,50"
NuTwelveOfTwo ==
    One([Seg("dmon", 5, "JAN", 0, <<"Loja">>, TRUE, Amt3250)
            EXCEPT !.inst = Some(<<12, 2>>)])

\* "09/01 Loja 1/1 R$ 5,00"
MpOneOfOne ==
    One([Seg("dslash", 9, "", 1, <<"Loja">>, TRUE, Amt500)
            EXCEPT !.inst = Some(<<1, 1>>)])

\* "07/01 LOJA 07/12 10,00": the installment shares its first number with
\* the day
SaSharedDay ==
    One([Seg("dslash", 7, "", 1, <<"LOJA">>, FALSE, Amt1000)
            EXCEPT !.inst = Some(<<7, 12>>)])

\* "08/03 MERCADO 02/03 5,00": the installment shares its second number
\* with the month
SaSharedMonth ==
    One([Seg("dslash", 8, "", 3, <<"MERCADO">>, FALSE, Amt500)
            EXCEPT !.inst = Some(<<2, 3>>)])

\* "09/01 Compra Data X 5,00"
SaCompraData ==
    One(Seg("dslash", 9, "", 1, <<"Compra", "Data", "X">>, FALSE, Amt500))

\* "10/01 Valor Total X 5,00"
SaValorTotal ==
    One(Seg("dslash", 10, "", 1, <<"Valor", "Total", "X">>, FALSE, Amt500))

ParsePageSamples ==
    { Page(<<NuTx, NuFive, NuPay, NuDisc, NuBadDate, NuLeap, NuTwelveOfTwo>>),
      Page(<<InAdvance500, InRefund, InTx, InAdvBadDate, InPagto,
             InAdvCard>>),
      Page(<<BtTx, BtPayments, BtPix>>),
      Page(<<BtLoja, BtLancamentos, BtTx, BtPayments, BtPix, BtTotalCompras,
             BtConv>>),
      Page(<<SaCaption, SaLoja>>),
      Page(<<FpSantander, SaTx, SaBad, SaTwo, SaSharedDay, SaSharedMonth,
             SaCompraData, SaValorTotal>>),
      Page(<<MpCard, MpTx, MpTotal, MpLoja>>),
      Page(<<MpTotal, MpCard, MpTotal, MpTx>>),
      Page(<<MpOneOfOne, MpCard, Noise>>) }

ParseDocs == UNION {[1..k -> ParsePageSamples] : k \in 0..MaxPages}

\* names of the temporary file: the samples of the request model and one
\* that spells the year 2025
ParseTmpNames ==
    TmpNames \cup {<<"t", "m", "p", "2", "0", "2", "5", ".", "p", "d", "f">>}

\* the state in which parse_statement calls parser.parse: the upload is
\* saved, the bank of the request is resolved to a class
InitParse ==
    /\ pc = "parse"
    /\ klass \in ParserKeys
    /\ detected = klass
    /\ req = [filename |-> Some(<<"x", ".", "p", "d", "f">>), bank |-> klass,
              password |-> None]
    /\ doc \in [openable : {TRUE}, lock : {None}, pages : ParseDocs]
    /\ io \in [nowYear : NowYears, fault : {"none"}]
    /\ tmp \in [exists : {TRUE}, name : ParseTmpNames]
    /\ handles = 0
    /\ detIdx = 0
    /\ pageIdx = 0
    /\ txs = <<>>
    /\ seen = {}
    /\ pending = ""
    /\ failure = None
    /\ response = NoResponse
    /\ hist = [tmpCreated |-> 1, detectCalls |-> 0, getParserCalls |-> 1,
               parseRuns |-> 0, opened |-> 0, trace |-> <<>>]
    /\ calc = NoCalc
    /\ calls = NoCalls

NextParse ==
    \/ ParserOpen
    \/ NubankEmpty
    \/ ParsePage
    \/ ParseLoopEnd
    \/ ParserExit
    \/ Finally

ParseSpec == InitParse /\ [][NextParse]_vars

(***************************************************************************)
(* The functions of utils/parsing_utils.py applied to arguments of their   *)
(* own: an amount string built from its parts, and integers for the dates. *)
(***************************************************************************)
\* the longest amount, counted in digits
MaxAmountDigits == 9

LeadDigits == {"0", "1"}

GroupDigits == {"0", "9"}

DigitSeqs(set, n) == [1..n -> set]

\* the parts of an amount of the shape [-]D{1,3}(.DDD)*,DD
AmountParts ==
    {p \in [neg : BOOLEAN,
            lead : UNION {DigitSeqs(LeadDigits, n) : n \in 1..3},
            groups : UNION {[1..k -> DigitSeqs(GroupDigits, 3)] : k \in 0..2},
            cents : DigitSeqs(GroupDigits, 2)] :
        Len(p.lead) + 3 * Len(p.groups) + 2 <= MaxAmountDigits}
    \cup
    {[neg |-> n, lead |-> <<"1">>, groups |-> <<(<<"2", "3", "4">>)>>,
      cents |-> <<"5", "6">>] : n \in BOOLEAN}

RECURSIVE GroupChars(_)
GroupChars(groups) ==
    IF groups = <<>> THEN <<>>
    ELSE <<".">> \o Head(groups) \o GroupChars(Tail(groups))

\* the string the parts spell
AmountString(p) ==
    (IF p.neg THEN <<"-">> ELSE <<>>) \o p.lead \o GroupChars(p.groups)
    \o <<",">> \o p.cents

\* a Python int as datetime() receives it: n when it fits a C int, and no
\* more than the fact when it does not
PyInt(n) == [fits |-> TRUE, n |-> n]

BeyondCInt == [fits |-> FALSE, n |-> 0]

YearSamples == {0, 1, 1900, 2000, 2023, 2024, 2025, 9999, 10000}

MonthSamples == {0, 1, 2, 4, 11, 12, 13}

DaySamples == {0, 1, 5, 25, 28, 29, 30, 31, 32}

PyInts(set) == {PyInt(n) : n \in set} \cup {BeyondCInt}

\* validate_date as a call: datetime() converts its arguments to C ints
\* first, and an argument that does not fit raises OverflowError, which the
\* handler for ValueError does not catch
validate_date_call(year, month, day) ==
    IF year.fits /\ month.fits /\ day.fits
    THEN [raised |-> "", value |-> validate_date(year.n, month.n, day.n)]
    ELSE [raised |-> "OverflowError", value |-> None]

AmountCalls ==
    [fn : {"parse_brazilian_amount"}, args : AmountParts, out : {None}]

DateCalls ==
    [fn : {"validate_date"},
     args : PyInts(YearSamples) \X PyInts(MonthSamples) \X PyInts(DaySamples),
     out : {None}]

ContextCalls ==
    [fn : {"validate_date_with_statement_context"},
     args : {1, 2024, 2025, 9999} \X (0..13) \X (0..13) \X {1, 5, 25, 29, 31},
     out : {None}]

InitCalc ==
    /\ Idle
    /\ calls = NoCalls
    /\ \/ calc \in AmountCalls
       \/ calc \in DateCalls
       \/ calc \in ContextCalls

ApplyAmount ==
    /\ calc.fn = "parse_brazilian_amount"
    /\ calc.out = None
    /\ calc' = [calc EXCEPT
                   !.out = Some(parse_brazilian_amount(AmountString(calc.args)))]
    /\ UNCHANGED <<single, calls>>

ApplyValidateDate ==
    /\ calc.fn = "validate_date"
    /\ calc.out = None
    /\ calc' = [calc EXCEPT
                   !.out = Some(validate_date_call(calc.args[1], calc.args[2],
                                                   calc.args[3]))]
    /\ UNCHANGED <<single, calls>>

ApplyContext ==
    /\ calc.fn = "validate_date_with_statement_context"
    /\ calc.out = None
    /\ calc' = [calc EXCEPT
                   !.out = Some(validate_date_with_statement_context(
                                    calc.args[1], calc.args[2], calc.args[3],
                                    calc.args[4]))]
    /\ UNCHANGED <<single, calls>>

NextCalc ==
    \/ ApplyAmount
    \/ ApplyValidateDate
    \/ ApplyContext

CalcSpec == InitCalc /\ [][NextCalc]_vars

(***************************************************************************)
(* Properties.                                                             *)
(***************************************************************************)
RegistryOrder == <<"nubank", "inter", "btg", "santander", "mercadopago">>

RegistryKeys == {"nubank", "inter", "btg", "santander", "mercadopago"}

\* the response is a ParseResult of the unsuccessful shape
Unsuccessful ==
    /\ response.kind = "result"
    /\ response.result.success = FALSE
    /\ response.result.statement_type = "UNKNOWN"
    /\ response.result.transactions = <<>>
    /\ response.result.error_message # None

\* the bank of the request cannot be resolved
BankUnresolved ==
    \/ req.bank = "auto" /\ detected = "unknown"
    \/ req.bank # "auto" /\ Lower(req.bank) \notin RegistryKeys

\* C1: when the bank cannot be resolved (hint "auto" and detect_bank answers
\* "unknown", or the lower-cased hint is no key of the registry), the request
\* returns, without raising, an unsuccessful ParseResult (success false,
\* statement_type UNKNOWN, no transactions, an error message) and no
\* classifier's parse has run.
C1_UnresolvedBankFails ==
    (pc = "responded" /\ BankUnresolved) =>
        /\ Unsuccessful
        /\ hist.parseRuns = 0

C1_Witness ==
    /\ pc = "responded"
    /\ req.bank = "auto"
    /\ detected = "unknown"
    /\ Len(hist.trace) = 5
    /\ doc.pages # <<>>
    /\ Unsuccessful

C1_WitnessUnsupported ==
    /\ pc = "responded"
    /\ req.bank = "itau"
    /\ hist.getParserCalls = 1
    /\ Unsuccessful

\* C2: a failure raised while a classifier opens or reads the document never
\* escapes parse: the result is unsuccessful, its bank is the classifier's
\* own identifier, statement_type is UNKNOWN, transactions is empty and
\* error_message carries the failure text.
C2_FailureNeverEscapes ==
    (pc \in {"finally", "responded"} /\ failure # None) =>
        /\ Unsuccessful
        /\ klass \in RegistryKeys
        /\ response.result.bank = klass
        /\ response.result.error_message = failure
        /\ response.result.total_amount = None

C2_Witness ==
    /\ pc = "responded"
    /\ failure = Some(PageErrorText)
    /\ klass = "santander"
    /\ req.bank = "auto"
    /\ txs # <<>>
    /\ Unsuccessful

\* the detector of a bank answers true on the document
DetectorTrue(bank) == CanOpen(doc, None) /\ DetectBody(bank, doc) = "true"

FirstDetected ==
    LET hits == {i \in 1..Len(RegistryOrder) : DetectorTrue(RegistryOrder[i])}
    IN  IF hits = {} THEN "unknown"
        ELSE RegistryOrder[CHOOSE i \in hits : \A j \in hits : i <= j]

\* C3: detect_bank never raises and answers the first bank, in the order
\* nubank, inter, btg, santander, mercadopago, whose detector answers true;
\* a detector that fails counts as a non-match and the next bank is tried;
\* the answer is "unknown" exactly when no detector answers true.
C3_FirstDetectorWins ==
    (hist.detectCalls = 1 /\ pc \notin {"detect", "detect_body"}) =>
        /\ response.kind # "unhandled"
        /\ detected = FirstDetected
        /\ (detected = "unknown") <=>
              (\A b \in RegistryKeys : ~DetectorTrue(b))
        /\ \A i \in 1..Len(hist.trace) :
              /\ hist.trace[i][1] = RegistryOrder[i]
              /\ i < Len(hist.trace) => hist.trace[i][2] # "true"
        /\ detected = "unknown" => Len(hist.trace) = Len(RegistryOrder)

C3_Witness ==
    /\ pc = "responded"
    /\ hist.detectCalls = 1
    /\ detected = "btg"
    /\ hist.trace = <<(<<"nubank", "failed">>), <<"inter", "failed">>,
                      <<"btg", "true">>>>

C3_WitnessTwoMatch ==
    /\ pc = "responded"
    /\ detected = "inter"
    /\ DetectorTrue("btg")

\* the sum of the amounts of the first n transactions
RECURSIVE SumFirst(_, _)
SumFirst(ts, n) == IF n = 0 THEN 0 ELSE SumFirst(ts, n - 1) + ts[n].amount

\* C4: in every successful ParseResult total_amount is the signed sum of the
\* amounts of exactly the transactions of the result, and it is absent
\* exactly when there are no transactions.
C4_TotalIsSum ==
    (response.kind = "result" /\ response.result.success) =>
        LET r == response.result
        IN  /\ (r.total_amount = None) <=> (r.transactions = <<>>)
            /\ r.transactions # <<>> =>
                  r.total_amount =
                      Some(SumFirst(r.transactions, Len(r.transactions)))

C4_Witness ==
    /\ response.kind = "result"
    /\ response.result.success
    /\ Len(response.result.transactions) = 2
    /\ response.result.transactions[1].amount = -500
    /\ response.result.transactions[2].amount = 500
    /\ response.result.total_amount = Some(0)

\* a line is matched by one of the patterns of a classifier
LineMatched(bank, line) ==
    CASE bank = "nubank" -> NubankMatches(line)
      [] bank = "inter" -> InterMatch(line) # 0
      [] bank = "btg" ->
            \/ ConversionMatch(line) # 0
            \/ \E i \in 1..Len(line.segs) : BTGSeg(line.segs[i])
      [] bank = "santander" ->
            \E i \in 1..Len(line.segs) :
                SantanderMainSeg(line.segs[i]) \/ SantanderSimpleSeg(line.segs[i])
      [] bank = "mercadopago" -> MercadoPagoTx(line) \/ TOTAL_PATTERN(line)

NoLineMatched ==
    \A i \in 1..Len(doc.pages) : \A j \in 1..Len(doc.pages[i].lines) :
        ~LineMatched(klass, doc.pages[i].lines[j])

\* the document opens with the password of the request and every page reads
DocReadable ==
    /\ CanOpen(doc, req.password)
    /\ \A i \in 1..Len(doc.pages) : doc.pages[i].readable

EmptySuccess ==
    /\ response.kind = "result"
    /\ response.result.success
    /\ response.result.transactions = <<>>
    /\ response.result.total_amount = None
    /\ response.result.error_message = None

C5_WitnessNoPages ==
    /\ pc = "responded"
    /\ hist.parseRuns = 1
    /\ klass = "btg"
    /\ doc.pages = <<>>
    /\ EmptySuccess

IsPrefix(s, t) == Len(s) <= Len(t) /\ SubSeq(t, 1, Len(s)) = s

\* C6: a line that matches a transaction shape with a malformed amount or
\* date token is skipped and is never fatal: a parse of a document that
\* opens and whose pages all read returns success, with the transactions of
\* the other lines.
C6_MalformedLineNeverFatal ==
    (/\ pc = "responded" /\ hist.parseRuns = 1 /\ DocReadable
     /\ ~(klass = "nubank" /\ doc.pages = <<>>))
        => /\ response.kind = "result"
           /\ response.result.success
           /\ IsPrefix(txs, response.result.transactions)

AdvanceKeywords ==
    {<<"pagamento", "on", "line">>, <<"pagamento", "online">>,
     <<"pagto", "debito", "automatico">>, <<"pagto">>}

\* C7: in every ParseResult a DEBIT has amount <= 0 and a CREDIT has
\* amount >= 0; a transaction is a CREDIT only if it is a Nubank discount
\* line or an Inter advance-payment line, and every other one is a DEBIT.
C7_SignAndKind ==
    response.kind = "result" =>
        \A i \in 1..Len(response.result.transactions) :
            LET t == response.result.transactions[i]
                d == LowerAll(t.description)
            IN  /\ t.type \in {"DEBIT", "CREDIT"}
                /\ t.type = "DEBIT" => t.amount <= 0
                /\ t.type = "CREDIT" => t.amount >= 0
                /\ t.type = "CREDIT" =>
                      \/ /\ response.result.bank = "nubank"
                         /\ Contains(d, <<"desconto">>)
                      \/ /\ response.result.bank = "inter"
                         /\ ContainsAny(d, AdvanceKeywords)

C7_Witness ==
    /\ response.kind = "result"
    /\ response.result.bank = "nubank"
    /\ Len(response.result.transactions) = 2
    /\ response.result.transactions[1].type = "DEBIT"
    /\ response.result.transactions[1].amount < 0
    /\ response.result.transactions[2].type = "CREDIT"
    /\ response.result.transactions[2].amount = 500
    /\ \E i \in 1..Len(doc.pages) : \E j \in 1..Len(doc.pages[i].lines) :
          doc.pages[i].lines[j] = NuDisc

\* the file name is present and ends in ".pdf", whatever the letter case
NameIsPdf ==
    /\ req.filename # None
    /\ Len(req.filename[1]) >= 4
    /\ LET n == req.filename[1]
           k == Len(n)
       IN  /\ n[k - 3] = "."
           /\ n[k - 2] \in {"p", "P"}
           /\ n[k - 1] \in {"d", "D"}
           /\ n[k] \in {"f", "F"}

\* C8: an upload whose file name is missing or does not end in ".pdf" is
\* rejected with a transport error before the core is invoked: no temporary
\* file is created, detect_bank is not called, no classifier is resolved or
\* run.
C8_RejectBeforeCore ==
    (pc # "idle" /\ ~NameIsPdf) =>
        /\ pc \in {"validate", "rejected"}
        /\ pc = "rejected" => response = HttpError
        /\ ~tmp.exists
        /\ hist.tmpCreated = 0
        /\ hist.detectCalls = 0
        /\ hist.getParserCalls = 0
        /\ hist.parseRuns = 0
        /\ hist.opened = 0

C8_Witness ==
    /\ pc = "rejected"
    /\ req.filename = Some(<<"x", ".", "t", "x", "t">>)
    /\ response = HttpError
    /\ hist.tmpCreated = 0

\* C9: the temporary file created for an upload no longer exists once the
\* request has ended, on every exit path after its creation, a failure while
\* reading or writing the upload content included.
C9_TempRemoved ==
    (pc \in {"responded", "rejected", "crashed"} /\ hist.tmpCreated > 0)
        => ~tmp.exists

\* C10: every document handle opened by a classifier's parse or detect is
\* closed by the time that call returns, on every exit path (normal return,
\* early return, exception while pages are read).
C10_HandlesClosed ==
    /\ pc \notin {"detect_body", "parse_pages", "parse_exit"} => handles = 0
    /\ pc \in {"detect_body", "parse_pages", "parse_exit"} => handles = 1

C10_Witness ==
    /\ pc = "finally"
    /\ pending = "raise"
    /\ req.bank = "auto"
    /\ hist.opened >= 2
    /\ hist.parseRuns = 1
    /\ handles = 0

\* the result request r produces when it is served alone, from its own
\* upload and its own temporary file name
ResultAlone(r) ==
    LET c == calls.reqs[r]
    IN  ParseAlone(c.bank, c.pages,
                   extract_year_from_filename(c.name, io.nowYear),
                   MonthOr1(c.name))

\* C11: requests that run side by side share no mutable state: under every
\* interleaving each request's ParseResult equals the result the same
\* request produces alone, and the buffer and dedup set a request ends with
\* are the ones its own document gives.
C11_NoSharedState ==
    \A r \in Requests :
        calls.reqs[r].pc \in {"finally", "responded"} =>
            calls.reqs[r].result = Some(ResultAlone(r))

C11_Witness ==
    /\ calls.mixed
    /\ \A r \in Requests :
          /\ calls.reqs[r].pc = "responded"
          /\ calls.reqs[r].bank = "santander"
          /\ calls.reqs[r].result # None
          /\ calls.reqs[r].result[1].success
          /\ calls.reqs[r].result[1].transactions # <<>>
          /\ calls.reqs[r].result = Some(ResultAlone(r))
    /\ calls.reqs[1].pages # calls.reqs[2].pages

\* the lines of the document in reading order: page by page, line by line
RECURSIVE DocLines(_)
DocLines(pages) ==
    IF pages = <<>> THEN <<>>
    ELSE (IF Head(pages).readable THEN Head(pages).lines ELSE <<>>)
         \o DocLines(Tail(pages))

\* the amount token of a segment reads as the amount of transaction t
AmountOf(seg, t) ==
    \E s \in {seg.amt, SantanderAmount(seg.amt), LoosePrefix(seg.amt)} :
        /\ s # <<>>
        /\ parse_brazilian_amount(s).ok
        /\ Abs(parse_brazilian_amount(s).val) = Abs(t.amount)

\* transaction t can have been taken from the line
TakenFrom(line, t) ==
    \E i \in 1..Len(line.segs) :
        LET seg == line.segs[i]
        IN  /\ AmountOf(seg, t)
            /\ seg.shape \in {"dmon", "dmy", "dslash"} =>
                  seg.day = t.date[3] /\ seg.desc = t.description

\* the transactions from the i-th on can be assigned, in their order, to
\* lines of the document that never go back before line `from`
RECURSIVE InReadingOrder(_, _, _, _)
InReadingOrder(ts, i, lines, from) ==
    IF i > Len(ts) THEN TRUE
    ELSE LET hits == {k \in from..Len(lines) : TakenFrom(lines[k], ts[i])}
         IN  /\ hits # {}
             /\ InReadingOrder(ts, i + 1, lines,
                               CHOOSE k \in hits : \A j \in hits : k <= j)

\* C12: in every successful ParseResult of every classifier the transactions
\* appear in document order: one taken from an earlier page precedes every
\* one taken from a later page, and within a page one taken from an earlier
\* line precedes every one taken from a later line.
C12_DocumentOrder ==
    (pc = "responded" /\ response.kind = "result" /\ response.result.success)
        => InReadingOrder(response.result.transactions, 1,
                          DocLines(doc.pages), 1)

\* the same for the four classifiers that read each page once
C12_SinglePassOrder ==
    (/\ pc = "responded" /\ response.kind = "result"
     /\ response.result.success /\ klass # "santander")
        => InReadingOrder(response.result.transactions, 1,
                          DocLines(doc.pages), 1)

\* the number a sequence of digits spells
RECURSIVE Spelled(_)
Spelled(ds) ==
    IF ds = <<>> THEN 0
    ELSE DigitVal(Head(ds)) * 10 ^ (Len(ds) - 1) + Spelled(Tail(ds))

RECURSIVE Joined(_)
Joined(groups) ==
    IF groups = <<>> THEN <<>> ELSE Head(groups) \o Joined(Tail(groups))

\* the decimal value of an amount, in hundredths: the separators removed, the
\* two digits after the comma read as the fraction, the sign kept
Hundredths(p) ==
    LET mag == 100 * Spelled(p.lead \o Joined(p.groups)) + Spelled(p.cents)
    IN  IF p.neg THEN -mag ELSE mag

\* C13: for every amount string of the shape D{1,3}(.DDD)*,DD with an
\* optional leading '-', parse_brazilian_amount returns the decimal value
\* read without the '.' separators and with ',' as the decimal point, the
\* sign preserved.
C13_AmountValue ==
    (calc.fn = "parse_brazilian_amount" /\ calc.out # None) =>
        /\ calc.out[1].ok
        /\ calc.out[1].val = Hundredths(calc.args)

C13_Witness ==
    /\ calc.fn = "parse_brazilian_amount"
    /\ AmountString(calc.args) =
          <<"-", "1", ".", "2", "3", "4", ",", "5", "6">>
    /\ calc.out = Some([ok |-> TRUE, val |-> -123456])

C13_WitnessTwoGroups ==
    /\ calc.fn = "parse_brazilian_amount"
    /\ AmountString(calc.args) =
          <<"1", ".", "0", "9", "0", ".", "9", "0", "9", ",", "0", "9">>
    /\ calc.out = Some([ok |-> TRUE, val |-> 109090909])

\* (year, month, day) is a date of the calendar
LeapYear(y) == y % 4 = 0 /\ (y % 100 # 0 \/ y % 400 = 0)

CalendarDate(y, m, d) ==
    /\ y >= 1
    /\ m \in 1..12
    /\ d >= 1
    /\ d <= (IF m = 2 THEN (IF LeapYear(y) THEN 29 ELSE 28)
             ELSE IF m \in {4, 6, 9, 11} THEN 30 ELSE 31)

\* C14: validate_date(year, month, day) never raises for integer arguments;
\* it returns the date (year, month, day) exactly when that is a real
\* calendar date, leap years included, and null otherwise.
C14_ValidateDateTotal ==
    (calc.fn = "validate_date" /\ calc.out # None) =>
        LET y == calc.args[1]
            m == calc.args[2]
            d == calc.args[3]
        IN  /\ calc.out[1].raised = ""
            /\ (y.fits /\ m.fits /\ d.fits) =>
                  calc.out[1].value =
                      (IF CalendarDate(y.n, m.n, d.n)
                       THEN Some(<<y.n, m.n, d.n>>) ELSE None)

\* what does hold: for arguments that fit a C int and a year up to 9999
C14_InRange ==
    (/\ calc.fn = "validate_date" /\ calc.out # None
     /\ calc.args[1].fits /\ calc.args[2].fits /\ calc.args[3].fits
     /\ calc.args[1].n <= 9999) =>
        /\ calc.out[1].raised = ""
        /\ calc.out[1].value =
              (IF CalendarDate(calc.args[1].n, calc.args[2].n, calc.args[3].n)
               THEN Some(<<calc.args[1].n, calc.args[2].n, calc.args[3].n>>)
               ELSE None)

\* the year the statement context gives a transaction
ContextYear(year, statementMonth, txMonth) ==
    IF <<statementMonth, txMonth>> \in {<<1, 12>>, <<2, 12>>} THEN year - 1
    ELSE IF <<statementMonth, txMonth>> \in {<<12, 1>>, <<11, 1>>}
    THEN year + 1
    ELSE year

\* C15: validate_date_with_statement_context(year, statementMonth, txMonth,
\* day) equals validate_date(year', txMonth, day), where year' is year-1 for
\* the month pairs (1,12) and (2,12), year+1 for (12,1) and (11,1), and year
\* for every other pair.
C15_ContextYear ==
    (calc.fn = "validate_date_with_statement_context" /\ calc.out # None) =>
        calc.out[1] =
            validate_date(ContextYear(calc.args[1], calc.args[2],
                                      calc.args[3]),
                          calc.args[3], calc.args[4])

C15_Witness ==
    /\ calc.fn = "validate_date_with_statement_context"
    /\ calc.args = <<2025, 1, 12, 25>>
    /\ calc.out = Some(Some(<<2024, 12, 25>>))

C15_WitnessForward ==
    /\ calc.fn = "validate_date_with_statement_context"
    /\ calc.args = <<2024, 12, 1, 5>>
    /\ calc.out = Some(Some(<<2025, 1, 5>>))

\* the statement year of the parse: the year in the name of the saved file,
\* the current year if it has none
StatementYear == extract_year_from_filename(tmp.name, io.nowYear)

\* the Portuguese month abbreviations in upper case, January first
PortugueseMonths ==
    <<"JAN", "FEV", "MAR", "ABR", "MAI", "JUN", "JUL", "AGO", "SET", "OUT",
      "NOV", "DEZ">>

MonthNumber(tok) ==
    IF \E k \in 1..12 : PortugueseMonths[k] = tok
    THEN CHOOSE k \in 1..12 : PortugueseMonths[k] = tok
    ELSE 0

\* a line "DD MMM description R$ amount" the Nubank claim speaks about
NubankPurchaseLine(line, year) ==
    /\ line.lead = <<>>
    /\ Len(line.segs) = 1
    /\ LET seg == line.segs[1]
       IN  /\ seg.shape = "dmon"
           /\ seg.cur
           /\ seg.trail = <<>>
           /\ seg.desc # <<>>
           /\ StrictAmount(seg.amt)
           /\ MonthNumber(seg.mon) # 0
           /\ CalendarDate(year, MonthNumber(seg.mon), seg.day)
           /\ ~NubankSkip(LowerAll(seg.desc))
           /\ ~NubankIsDiscount(seg.desc)

\* what is to be known of a transaction: its date, amount and kind
Booked(t) == [date |-> t.date, amount |-> t.amount, type |-> t.type]

BookedAll(ts) == [i \in 1..Len(ts) |-> Booked(ts[i])]

\* the one DEBIT a purchase line stands for
NubankPurchase(line, year) ==
    [date   |-> <<year, MonthNumber(line.segs[1].mon), line.segs[1].day>>,
     amount |-> 0 - Abs(parse_brazilian_amount(line.segs[1].amt).val),
     type   |-> "DEBIT"]

\* what the lines from the i-th on are booked as: a purchase line as its one
\* DEBIT, any other line as the classifier books it
RECURSIVE NubankBooked(_, _, _)
NubankBooked(lines, i, year) ==
    IF i > Len(lines) THEN <<>>
    ELSE (IF NubankPurchaseLine(lines[i], year)
          THEN <<NubankPurchase(lines[i], year)>>
          ELSE BookedAll(NubankLine(lines[i],
                                    [txs |-> <<>>, seen |-> {}, exc |-> None,
                                     flag |-> FALSE],
                                    year).txs))
         \o NubankBooked(lines, i + 1, year)

\* the parse of the document has returned a successful result
Parsed(bank) ==
    /\ klass = bank
    /\ pc = "responded"
    /\ response.kind = "result"
    /\ response.result.success

\* C16: the Nubank classifier turns each line "DD MMM description R$ amount"
\* with an upper-case Portuguese month abbreviation, a day valid for that
\* month in the statement year, and a description that is neither on the
\* denylist nor a discount, into exactly one DEBIT transaction dated
\* (statement year, month, day) whose amount is minus the absolute value of
\* the parsed amount.
C16_NubankPurchaseLines ==
    Parsed("nubank") =>
        BookedAll(response.result.transactions) =
            NubankBooked(DocLines(doc.pages), 1, StatementYear)

\* "05 JAN Uber R$ 32,50" with statement year 2025
C16_Witness ==
    /\ Parsed("nubank")
    /\ StatementYear = 2025
    /\ \E k \in 1..Len(DocLines(doc.pages)) : DocLines(doc.pages)[k] = NuTx
    /\ NubankPurchaseLine(NuTx, 2025)
    /\ \E k \in 1..Len(response.result.transactions) :
          Booked(response.result.transactions[k]) =
              [date |-> <<2025, 1, 5>>, amount |-> -3250, type |-> "DEBIT"]

\* "29 FEV Mercado R$ 10,00" is a purchase of the leap year 2024 only
C16_WitnessLeapDay ==
    /\ Parsed("nubank")
    /\ StatementYear = 2024
    /\ \E k \in 1..Len(response.result.transactions) :
          Booked(response.result.transactions[k]) =
              [date |-> <<2024, 2, 29>>, amount |-> -1000, type |-> "DEBIT"]


\* the dedup key of a Santander transaction: day, month and amount, the
\* amount being a whole number of hundredths
DedupKey(t) == <<t.date[3], t.date[2], t.amount>>

\* a segment "DD/MM description amount" that both Santander patterns match
MatchedTwice(seg) == SantanderMainSeg(seg) /\ SantanderSimpleSeg(seg)

\* the number of segments of the document that spell the key of t
RECURSIVE Spellings(_, _)
Spellings(segs, t) ==
    IF segs = <<>> THEN 0
    ELSE (IF /\ Head(segs).shape = "dslash"
             /\ Head(segs).day = t.date[3]
             /\ Head(segs).mm = t.date[2]
             /\ AmountOf(Head(segs), t)
          THEN 1 ELSE 0)
         + Spellings(Tail(segs), t)

\* C17: in a Santander ParseResult no two transactions share the same
\* (day, month, amount rounded to two decimals) key: a transaction matched
\* by both the main per-line pattern and the fallback whole-page pattern, or
\* matched more than once on any pages of the document, appears exactly
\* once.
C17_SantanderDedup ==
    Parsed("santander") =>
        \A i, j \in 1..Len(response.result.transactions) :
            DedupKey(response.result.transactions[i])
                = DedupKey(response.result.transactions[j]) => i = j

\* a transaction that both patterns match, spelled on two pages, booked once
C17_Witness ==
    /\ Parsed("santander")
    /\ Len(doc.pages) = 2
    /\ \A p \in 1..2 :
          \E k \in 1..Len(doc.pages[p].lines) :
              /\ doc.pages[p].lines[k] = SaTx
              /\ MatchedTwice(SaTx.segs[1])
    /\ \E k \in 1..Len(response.result.transactions) :
          LET t == response.result.transactions[k]
          IN  /\ Spellings(PageSegs(DocLines(doc.pages)), t) >= 2
              /\ DedupKey(t) = <<SaTx.segs[1].day, SaTx.segs[1].mm, -3250>>


\* a line the Inter pattern matches that carries "+" before the currency
\* symbol
InterPlusLine(line) == InterMatch(line) # 0 /\ CREDIT_PATTERN(line)

\* its description contains an advance-payment keyword
InterAdvanceLine(line) ==
    ContainsAny(LowerAll(line.segs[InterMatch(line)].desc), ADVANCE_KEYWORDS)

\* its date is a date of the calendar under a known month abbreviation, and
\* its description does not begin with a card number
InterBookable(line) ==
    LET seg   == line.segs[InterMatch(line)]
        month == MONTH_MAP_LOWER(LowerMonth(seg.mon))
    IN  /\ month # 0
        /\ CalendarDate(seg.year[1], month, seg.day)
        /\ ~CARD_NUMBER_PATTERN(seg.desc)

\* the CREDIT an advance payment is booked as
InterAdvanceCredit(line) ==
    LET seg == line.segs[InterMatch(line)]
    IN  [date   |-> <<seg.year[1], MONTH_MAP_LOWER(LowerMonth(seg.mon)),
                      seg.day>>,
         amount |-> Abs(parse_brazilian_amount(LoosePrefix(seg.amt)).val),
         type   |-> "CREDIT"]

\* what the lines from the i-th on are booked as: a "+" line as one CREDIT if
\* it is an advance payment (and, when `bookable` is asked for, is bookable)
\* and as nothing otherwise, any other line as the classifier books it
RECURSIVE InterBooked(_, _, _)
InterBooked(lines, i, bookable) ==
    IF i > Len(lines) THEN <<>>
    ELSE (IF InterPlusLine(lines[i])
          THEN (IF /\ InterAdvanceLine(lines[i])
                   /\ bookable => InterBookable(lines[i])
                THEN <<InterAdvanceCredit(lines[i])>> ELSE <<>>)
          ELSE BookedAll(InterLine(lines[i],
                                   [txs |-> <<>>, seen |-> {}, exc |-> None,
                                    flag |-> FALSE]).txs))
         \o InterBooked(lines, i + 1, bookable)

\* C18: in the Inter classifier a matched line carrying '+' before the
\* currency symbol produces a transaction if and only if its description
\* contains an advance-payment keyword, and that transaction is a CREDIT
\* whose amount is the positive absolute value; a '+' line without an
\* advance-payment keyword produces no transaction and does not contribute
\* to total_amount.
C18_PlusLineIffAdvance ==
    Parsed("inter") =>
        /\ BookedAll(response.result.transactions) =
              InterBooked(DocLines(doc.pages), 1, FALSE)
        /\ response.result.total_amount =
              total_amount(response.result.transactions)

\* C18 as it holds: the '+' line produces its CREDIT if and only if its
\* description contains an advance-payment keyword and, besides, its date is
\* a real calendar date under a known month abbreviation and its description
\* does not begin with a card number; every other '+' line produces nothing.
C18_PlusLineIffBookableAdvance ==
    Parsed("inter") =>
        /\ BookedAll(response.result.transactions) =
              InterBooked(DocLines(doc.pages), 1, TRUE)
        /\ response.result.total_amount =
              total_amount(response.result.transactions)

\* "10 de Jan 2025 Pagamento On Line + R$ 500,00" beside a refund
C18_Witness ==
    /\ Parsed("inter")
    /\ \E k \in 1..Len(DocLines(doc.pages)) :
          /\ DocLines(doc.pages)[k] = InAdvance500
          /\ InterPlusLine(InAdvance500)
    /\ \E k \in 1..Len(DocLines(doc.pages)) :
          /\ DocLines(doc.pages)[k] = InRefund
          /\ InterPlusLine(InRefund) /\ ~InterAdvanceLine(InRefund)
    /\ \E k \in 1..Len(response.result.transactions) :
          Booked(response.result.transactions[k]) =
              [date |-> <<2025, 1, 10>>, amount |-> 50000, type |-> "CREDIT"]
    /\ \A k \in 1..Len(response.result.transactions) :
          response.result.transactions[k].description # <<"Estorno">>

\* an advance payment dated 31 February is not booked
C18_WitnessBadDate ==
    /\ Parsed("inter")
    /\ \E k \in 1..Len(DocLines(doc.pages)) :
          /\ DocLines(doc.pages)[k] = InAdvBadDate
          /\ InterPlusLine(InAdvBadDate) /\ InterAdvanceLine(InAdvBadDate)
    /\ \A k \in 1..Len(response.result.transactions) :
          response.result.transactions[k].date # <<2025, 2, 31>>


\* the section markers of a BTG statement
OpensPayments(line) ==
    Contains(LineWords(line), <<"Pagamentos", "feitos", "pelo", "cliente">>)

ClosesPayments(line) ==
    \/ Contains(LineWords(line), <<"Lancamentos", "do", "cartao">>)
    \/ Contains(LineWords(line),
                <<"Total", "de", "compras", "e", "despesas">>)

\* what the lines from the i-th on are booked as when the lines of a
\* payments section are passed over: `skipping` tells whether the section is
\* open before line i
RECURSIVE BTGBooked(_, _, _, _, _)
BTGBooked(lines, i, skipping, year, month) ==
    IF i > Len(lines) THEN <<>>
    ELSE IF OpensPayments(lines[i])
    THEN BTGBooked(lines, i + 1, TRUE, year, month)
    ELSE IF skipping /\ ~ClosesPayments(lines[i])
    THEN BTGBooked(lines, i + 1, TRUE, year, month)
    ELSE BookedAll(BTGLine(lines[i],
                           [txs |-> <<>>, seen |-> {}, exc |-> None,
                            flag |-> FALSE],
                           year, month).txs)
         \o BTGBooked(lines, i + 1, FALSE, year, month)

\* the same page by page, every page beginning outside the section
RECURSIVE BTGBookedByPage(_, _, _, _)
BTGBookedByPage(pages, p, year, month) ==
    IF p > Len(pages) THEN <<>>
    ELSE BTGBooked(pages[p].lines, 1, FALSE, year, month)
         \o BTGBookedByPage(pages, p + 1, year, month)

\* C19: in the BTG classifier, once a line containing "Pagamentos feitos
\* pelo cliente" has been seen, no transaction is produced from that line or
\* from any later line of the document, on the same page or on following
\* pages, until a line containing "Lancamentos do cartao" or "Total de
\* compras e despesas" is seen.
C19_PaymentsSectionSkipped ==
    Parsed("btg") =>
        BookedAll(response.result.transactions) =
            BTGBooked(DocLines(doc.pages), 1, FALSE, StatementYear,
                      MonthOr1(tmp.name))

\* what does hold: the section is passed over to the end of its page
C19_SkippedWithinPage ==
    Parsed("btg") =>
        BookedAll(response.result.transactions) =
            BTGBookedByPage(doc.pages, 1, StatementYear, MonthOr1(tmp.name))

\* a payments section left open at the end of a page, and a purchase line
\* at the head of the next page
C19_OpenAcrossPages ==
    /\ Parsed("btg")
    /\ Len(doc.pages) = 2
    /\ doc.pages[1] = Page(<<BtTx, BtPayments, BtPix>>)
    /\ doc.pages[2].lines # <<>>
    /\ doc.pages[2].lines[1] = BtLoja


\* a line that opens a card section
CardSectionMarker(line) ==
    \/ Contains(LineWords(line), <<"Cartao", "Visa">>)
    \/ Contains(LineWords(line), <<"Cartao", "Mastercard">>)

\* The document is read as the classifier reads it, st being the state of
\* its loop before line i of page p, while the card sections are followed
\* beside it: `inSection` tells whether a marker has been seen with no
\* "Total R$" line after it, `taken` how many transactions were taken from
\* the lines of the section so far.  The reading is in order when every
\* "Total R$" line that is booked closes a section, and, where `garbled` is
\* asked for, a section from whose lines nothing was taken.
RECURSIVE SectionTotalsInOrder(_, _, _, _, _, _, _, _, _)
SectionTotalsInOrder(pages, p, i, st, inSection, taken, garbled, year, month) ==
    IF p > Len(pages) \/ st.exc # None THEN TRUE
    ELSE IF i > Len(pages[p].lines)
    THEN SectionTotalsInOrder(pages, p + 1, 1, [st EXCEPT !.flag = FALSE],
                              inSection, taken, garbled, year, month)
    ELSE LET line  == pages[p].lines[i]
             st2   == MercadoPagoLine(line, st, year, month)
             added == Len(st2.txs) - Len(st.txs)
         IN  IF CardSectionMarker(line)
             THEN SectionTotalsInOrder(pages, p, i + 1, st2, TRUE, 0, garbled,
                                       year, month)
             ELSE IF TOTAL_PATTERN(line)
             THEN /\ added > 0 => (inSection /\ (garbled => taken = 0))
                  /\ SectionTotalsInOrder(pages, p, i + 1, st2, FALSE, 0,
                                          garbled, year, month)
             ELSE SectionTotalsInOrder(pages, p, i + 1, st2, inSection,
                                       IF inSection THEN taken + added
                                       ELSE taken,
                                       garbled, year, month)

LoopStart == [txs |-> <<>>, seen |-> {}, exc |-> None, flag |-> FALSE]

\* the result in hand is the one this reading of the document ends with
ReadAsParsed(bank) ==
    response.result.transactions =
        ParsePages(bank, doc.pages, 1, LoopStart, StatementYear,
                   MonthOr1(tmp.name)).txs

\* C20: in the MercadoPago classifier a "Card section total" transaction is
\* recorded for a card section only when no individual transaction line of
\* that section was parsed: a result never contains both individual
\* transactions taken from lines between a card-section marker and its
\* "Total R$" line and the section-total transaction for that same section,
\* and no section-total transaction is ever taken from a "Total R$" line
\* that is not preceded by a card-section marker.
C20_SectionTotalOnlyWhenGarbled ==
    Parsed("mercadopago") =>
        /\ ReadAsParsed("mercadopago")
        /\ SectionTotalsInOrder(doc.pages, 1, 1, LoopStart, FALSE, 0, TRUE,
                                StatementYear, MonthOr1(tmp.name))

\* what does hold: a section total is never taken from a "Total R$" line
\* that no card-section marker precedes
C20_TotalNeedsMarker ==
    Parsed("mercadopago") =>
        /\ ReadAsParsed("mercadopago")
        /\ SectionTotalsInOrder(doc.pages, 1, 1, LoopStart, FALSE, 0, FALSE,
                                StatementYear, MonthOr1(tmp.name))

\* a card section whose line was parsed and whose total was booked as well
C20_BothBooked ==
    /\ Parsed("mercadopago")
    /\ doc.pages # <<>>
    /\ doc.pages[1] = Page(<<MpCard, MpTx, MpTotal, MpLoja>>)
    /\ Len(response.result.transactions) >= 2
    /\ response.result.transactions[1].description = <<"Uber">>
    /\ response.result.transactions[2].description
          = <<"Card", "section", "total">>


\* the entry a closed card section is to leave in the result
SectionTotal(line) ==
    [description |-> <<"Card", "section", "total">>,
     amount |-> 0 - Abs(parse_brazilian_amount(line.segs[1].amt).val),
     type |-> "DEBIT"]

\* The document is read as the classifier reads it while the card sections
\* are followed across the pages: every "Total R$" line that closes a
\* section from whose lines nothing was taken books the section total.
RECURSIVE SectionTotalsBooked(_, _, _, _, _, _, _, _)
SectionTotalsBooked(pages, p, i, st, inSection, taken, year, month) ==
    IF p > Len(pages) \/ st.exc # None THEN TRUE
    ELSE IF i > Len(pages[p].lines)
    THEN SectionTotalsBooked(pages, p + 1, 1, [st EXCEPT !.flag = FALSE],
                             inSection, taken, year, month)
    ELSE LET line  == pages[p].lines[i]
             st2   == MercadoPagoLine(line, st, year, month)
             added == Len(st2.txs) - Len(st.txs)
         IN  IF CardSectionMarker(line)
             THEN SectionTotalsBooked(pages, p, i + 1, st2, TRUE, 0, year,
                                      month)
             ELSE IF TOTAL_PATTERN(line)
             THEN /\ (inSection /\ taken = 0 /\ st2.exc = None) =>
                        /\ added = 1
                        /\ LET t == st2.txs[Len(st2.txs)]
                           IN  [description |-> t.description,
                                amount |-> t.amount, type |-> t.type]
                                   = SectionTotal(line)
                  /\ SectionTotalsBooked(pages, p, i + 1, st2, FALSE, 0,
                                         year, month)
             ELSE SectionTotalsBooked(pages, p, i + 1, st2, inSection,
                                      IF inSection THEN taken + added
                                      ELSE taken,
                                      year, month)

\* C21: in the MercadoPago classifier, for every card section opened by a
\* "Cartao Visa" or "Cartao Mastercard" marker line and closed by a later
\* "Total R$ amount" line, with none of the lines in between parsed as a
\* transaction, the result contains a DEBIT "Card section total" entry with
\* that total as a negative amount, wherever the page breaks fall between
\* the marker and the total line.
C21_GarbledSectionHasTotal ==
    Parsed("mercadopago") =>
        /\ ReadAsParsed("mercadopago")
        /\ SectionTotalsBooked(doc.pages, 1, 1, LoopStart, FALSE, 0,
                               StatementYear, MonthOr1(tmp.name))

\* what does hold: the same for the sections that lie within one page
C21_GarbledSectionOnOnePage ==
    Parsed("mercadopago") =>
        \A p \in 1..Len(doc.pages) :
            SectionTotalsBooked(<<doc.pages[p]>>, 1, 1, LoopStart, FALSE, 0,
                                StatementYear, MonthOr1(tmp.name))

\* a section opened on one page and closed at the head of the next
C21_SectionAcrossPages ==
    /\ Parsed("mercadopago")
    /\ Len(doc.pages) = 2
    /\ doc.pages[1] = Page(<<MpOneOfOne, MpCard, Noise>>)
    /\ doc.pages[2] = Page(<<MpTotal, MpCard, MpTotal, MpTx>>)


\* the installment fields of a transaction are as the statement of the
\* installment shape asks
InstallmentWellFormed(t) ==
    \/ t.installment_current = None /\ t.installment_total = None
    \/ /\ t.installment_current # None
       /\ t.installment_total # None
       /\ t.installment_current[1] <= t.installment_total[1]
       /\ t.installment_total[1] > 1

InstallmentBanks == {"nubank", "mercadopago", "santander"}

\* C22: in every ParseResult of the classifiers that extract installments
\* (Nubank, MercadoPago, Santander), installment_current and
\* installment_total are either both absent or both present, and when
\* present satisfy installment_current <= installment_total and
\* installment_total > 1.
C22_InstallmentsWellFormed ==
    (pc = "responded" /\ response.kind = "result"
        /\ klass \in InstallmentBanks) =>
        \A k \in 1..Len(response.result.transactions) :
            InstallmentWellFormed(response.result.transactions[k])

\* what does hold: both fields are absent or both present, and Santander
\* keeps the two bounds
C22_InstallmentsPaired ==
    (pc = "responded" /\ response.kind = "result"
        /\ klass \in InstallmentBanks) =>
        \A k \in 1..Len(response.result.transactions) :
            LET t == response.result.transactions[k]
            IN  /\ (t.installment_current = None)
                      <=> (t.installment_total = None)
                /\ klass = "santander" => InstallmentWellFormed(t)

\* a Santander transaction with an installment
C22_SantanderInstallment ==
    /\ Parsed("santander")
    /\ \E k \in 1..Len(response.result.transactions) :
          /\ response.result.transactions[k].installment_current = Some(1)
          /\ response.result.transactions[k].installment_total = Some(2)


\* the first pair (current, total) of the line with current <= total and
\* total > 1 that is not date-like; None if there is none.  A pair is
\* date-like when it is (day, month) or, where `either` is set, when it
\* shares either number with the date
FirstGenuinePair(pairs, day, month, either) ==
    LET dateLike(pr) == IF either THEN pr[1] = day \/ pr[2] = month
                        ELSE pr = <<day, month>>
        hits == {i \in 1..Len(pairs) :
                    /\ ~dateLike(pairs[i])
                    /\ pairs[i][1] <= pairs[i][2]
                    /\ pairs[i][2] > 1}
    IN  IF hits = {} THEN None
        ELSE Some(pairs[CHOOSE i \in hits : \A j \in hits : i <= j])

\* the transactions the main pass takes from the line, from the k-th of the
\* buffer on, carry the installment the line gives them
RECURSIVE TakenWithInstallment(_, _, _, _)
TakenWithInstallment(buffer, k, line, either) ==
    IF k > Len(buffer) THEN TRUE
    ELSE /\ LET t    == buffer[k]
                want == FirstGenuinePair(LinePairs(line.segs), t.date[3],
                                         t.date[2], either)
            IN  /\ t.installment_current = PairPart(want, 1)
                /\ t.installment_total = PairPart(want, 2)
         /\ TakenWithInstallment(buffer, k + 1, line, either)

\* the pages are read as the classifier reads them, and every line of the
\* main pass is held against the installment it is to give
RECURSIVE MainPassInstallments(_, _, _, _, _, _)
MainPassInstallments(pages, p, i, st, year, either) ==
    IF p > Len(pages) THEN TRUE
    ELSE IF i > Len(pages[p].lines)
    THEN MainPassInstallments(pages, p + 1, 1,
             SantanderFallback(PageSegs(pages[p].lines), 1, st, year), year,
             either)
    ELSE LET st2 == SantanderLine(pages[p].lines[i], st, year)
         IN  /\ TakenWithInstallment(st2.txs, Len(st.txs) + 1,
                                     pages[p].lines[i], either)
             /\ MainPassInstallments(pages, p, i + 1, st2, year, either)

\* C23: in the Santander classifier's main pass, the installment of a
\* transaction is the first candidate pair (current, total) in the line with
\* current <= total and total > 1 that is not the transaction's own date; a
\* candidate is rejected as date-like only when current equals the
\* transaction's day and total equals the transaction's month, so a genuine
\* installment pair that shares just one of the two numbers with the date is
\* kept.
C23_InstallmentNotOwnDate ==
    Parsed("santander") =>
        /\ ReadAsParsed("santander")
        /\ MainPassInstallments(doc.pages, 1, 1, LoopStart, StatementYear,
                                FALSE)

\* what does hold: a candidate is rejected as soon as it shares its first
\* number with the day or its second with the month
C23_InstallmentSharesNothing ==
    Parsed("santander") =>
        /\ ReadAsParsed("santander")
        /\ MainPassInstallments(doc.pages, 1, 1, LoopStart, StatementYear,
                                TRUE)

\* "07/01 LOJA 07/12 10,00" is booked, and booked with no installment
C23_SharedDayDropped ==
    /\ Parsed("santander")
    /\ \E k \in 1..Len(response.result.transactions) :
          LET t == response.result.transactions[k]
          IN  /\ t.description = <<"LOJA">>
              /\ t.date[3] = 7
              /\ t.installment_current = None


\* the text contains the entry, the case of the letters set aside
ContainsAnyCase(text, entry) == Contains(LowerAll(text), LowerAll(entry))

\* the description is on the denylist of the classifier
Denylisted(bank, description) ==
    CASE bank = "nubank" -> NubankSkip(LowerAll(description))
      [] bank = "inter" ->
            \E e \in InterSkipKeywords : ContainsAnyCase(description, e)
      [] bank = "btg" ->
            \E e \in BTGSkipKeywords : ContainsAnyCase(description, e)
      [] bank = "santander" ->
            \E e \in SantanderSkipKeywords : ContainsAnyCase(description, e)
      [] bank = "mercadopago" ->
            \E e \in MercadoPagoSkipKeywords : ContainsAnyCase(description, e)

\* the entries of the Santander denylist written in capitals throughout
SantanderCapitalEntries == {e \in SantanderSkipKeywords : UpperAll(e) = e}

\* C24: in every classifier, denylist membership is a case-insensitive
\* substring test for every entry of that classifier's denylist: a candidate
\* whose text contains a denylist entry in any letter case produces no
\* transaction.  For Santander this covers all twelve SKIP_KEYWORDS entries,
\* "Compra Data" and "Parcela R$" included, in both passes.
C24_DenylistAnyCase ==
    (pc = "responded" /\ response.kind = "result") =>
        \A k \in 1..Len(response.result.transactions) :
            ~Denylisted(klass, response.result.transactions[k].description)

\* what does hold: the four other classifiers keep their whole denylist,
\* and Santander the ten entries written in capitals
C24_DenylistCapitalEntries ==
    (pc = "responded" /\ response.kind = "result") =>
        \A k \in 1..Len(response.result.transactions) :
            LET d == response.result.transactions[k].description
            IN  IF klass = "santander"
                THEN \A e \in SantanderCapitalEntries : ~ContainsAnyCase(d, e)
                ELSE ~Denylisted(klass, d)

\* "10/01 Valor Total X 5,00" is dropped, "09/01 Compra Data X 5,00" booked
C24_MixedCaseEntryMissed ==
    /\ Parsed("santander")
    /\ \E p \in 1..Len(doc.pages) : \E i \in 1..Len(doc.pages[p].lines) :
          doc.pages[p].lines[i] = SaValorTotal
    /\ \A k \in 1..Len(response.result.transactions) :
          response.result.transactions[k].description
              # <<"Valor", "Total", "X">>
    /\ \E k \in 1..Len(response.result.transactions) :
          response.result.transactions[k].description
              = <<"Compra", "Data", "X">>


\* the two shapes of a ParseResult
SuccessShape(r) ==
    /\ r.success
    /\ r.statement_type = "CREDIT_CARD"
    /\ r.error_message = None

FailureShape(r) ==
    /\ ~r.success
    /\ r.statement_type = "UNKNOWN"
    /\ r.transactions = <<>>
    /\ r.total_amount = None
    /\ r.error_message # None

\* C25: every ParseResult returned by parse_statement or by any classifier's
\* parse has one of two shapes: success=true with statement_type CREDIT_CARD
\* and absent error_message, or success=false with statement_type UNKNOWN,
\* empty transactions, absent total_amount and present error_message;
\* period_start and period_end are absent in both, and no result carries
\* transactions together with an error.
C25_TwoShapes ==
    response.kind = "result" =>
        LET r == response.result
        IN  /\ SuccessShape(r) \/ FailureShape(r)
            /\ r.period_start = None /\ r.period_end = None
            /\ ~(r.transactions # <<>> /\ r.error_message # None)

\* a classifier that had taken transactions when an exception ended its
\* parse returns the failure shape
C25_Witness ==
    /\ pc = "responded"
    /\ response.kind = "result"
    /\ hist.parseRuns = 1
    /\ txs # <<>>
    /\ failure # None
    /\ FailureShape(response.result)

\* a successful result with transactions
C25_WitnessSuccess ==
    /\ pc = "responded"
    /\ response.kind = "result"
    /\ SuccessShape(response.result)
    /\ response.result.transactions # <<>>

\* the failure result parse_statement builds itself
C25_WitnessUndetected ==
    /\ pc = "responded"
    /\ response.kind = "result"
    /\ hist.parseRuns = 0
    /\ FailureShape(response.result)


\* what parse_statement is to return for a bank hint, a password, a document
\* and the name of the temporary file; the name of the upload is no part of
\* it
ResultFor(bank, password, d, name, nowYear) ==
    LET found == IF bank = "auto" THEN FirstDetected ELSE bank
        key   == IF Lower(found) \in RegistryKeys THEN Lower(found)
                 ELSE "unknown"
    IN  IF bank = "auto" /\ found = "unknown"
        THEN ParseResult(FALSE, "unknown", "UNKNOWN", None, <<>>, "1.0.0",
                         Some(UndetectedText))
        ELSE IF key = "unknown"
        THEN ParseResult(FALSE, found, "UNKNOWN", None, <<>>, "1.0.0",
                         Some(NoParserText))
        ELSE IF ~(d.openable /\ d.lock \in {None, password})
        THEN create_error_result(BANK_NAME(key), OpenErrorText)
        ELSE ParseAlone(key, d.pages,
                        extract_year_from_filename(name, nowYear),
                        MonthOr1(name))

\* C26: the name of the uploaded file does not influence the ParseResult of
\* parse_statement beyond the .pdf extension check: the statement year and
\* month are derived from the temporary file's name (or the fallbacks
\* current year and month 1), and two requests with identical content, bank
\* hint and password but different .pdf upload names, given the same
\* temporary name, return the same result.
C26_UploadNameIgnored ==
    pc = "responded" =>
        /\ response.kind = "result"
        /\ response.result =
              ResultFor(req.bank, req.password, doc, tmp.name, io.nowYear)

\* an upload named "fatura-2025-12.pdf" whose transactions are dated in the
\* year of the temporary file's name
C26_Witness ==
    /\ pc = "responded"
    /\ req.filename # None
    /\ YearPos(req.filename[1]) # 0
    /\ extract_year_from_filename(req.filename[1], io.nowYear) = 2025
    /\ extract_year_from_filename(tmp.name, io.nowYear) = 2024
    /\ response.kind = "result"
    /\ response.result.success
    /\ response.result.transactions # <<>>
    /\ \A k \in 1..Len(response.result.transactions) :
          response.result.transactions[k].date[1] = 2024

\* the same under the other upload name
C26_WitnessOtherName ==
    /\ pc = "responded"
    /\ req.filename # None
    /\ YearPos(req.filename[1]) = 0
    /\ extract_year_from_filename(tmp.name, io.nowYear) = 2024
    /\ response.kind = "result"
    /\ response.result.success
    /\ response.result.transactions # <<>>


\* the result of a request whose bank could not be detected
UndetectedResult ==
    ParseResult(FALSE, "unknown", "UNKNOWN", None, <<>>, "1.0.0",
                Some(UndetectedText))

\* C27: bank detection never uses the request's password: for a document
\* that can be opened only with a password, parse_statement with bank hint
\* "auto" returns the undetected-bank result (success=false, bank "unknown")
\* for every password value, the correct one included, and no classifier's
\* parse is run; the password reaches a classifier only when the bank is
\* named explicitly.
C27_DetectionWithoutPassword ==
    /\ (pc = "responded" /\ req.bank = "auto" /\ doc.openable
            /\ doc.lock # None) =>
          /\ response = Returned(UndetectedResult)
          /\ hist.parseRuns = 0
          /\ \A k \in 1..Len(hist.trace) : hist.trace[k][2] = "failed"
    /\ (hist.parseRuns > 0 /\ doc.openable /\ doc.lock # None) =>
          req.bank # "auto"

\* a locked document sent with its own password and the hint "auto"
C27_Witness ==
    /\ pc = "responded"
    /\ req.bank = "auto"
    /\ doc.openable
    /\ doc.lock # None
    /\ req.password = doc.lock
    /\ \E i \in 1..Len(doc.pages) : \E j \in 1..Len(doc.pages[i].lines) :
          doc.pages[i].lines[j] = FpNubank
    /\ Len(hist.trace) = Len(PARSERS)
    /\ response = Returned(UndetectedResult)

\* the same document with the bank named: the password opens it
C27_WitnessNamedBank ==
    /\ pc = "responded"
    /\ req.bank = "nubank"
    /\ doc.lock # None
    /\ req.password = doc.lock
    /\ response.kind = "result"
    /\ response.result.success

=============================================================================
